---- MODULE Spec2Model ----
(***************************************************************************)
(* Shopping adapter layer of asif-amar/shopping-mcp.                       *)
(*                                                                         *)
(* Part 1: RamiLevyAdapter.calculateBestPrice, the tiered best-price       *)
(*         calculator, as a pure operator applied to bounded inputs.       *)
(* Part 2: the Rami Levy and Shufersal adapter methods as request/response *)
(*         processes over a transport that may reject, with the upstream   *)
(*         Rami Levy cart as shared state.                                 *)
(*                                                                         *)
(* Prices are integers (ILS); the effective unit price, a quotient in the  *)
(* source, is kept as an exact fraction [num, den].                        *)
(***************************************************************************)
EXTENDS Integers, Sequences, FiniteSets, TLC

(***************************************************************************)
(* Bounds                                                                  *)
(***************************************************************************)
\* largest quantity priced by the calculator
MaxQty == 9
\* longest product.sale list
MaxTiers == 3

(***************************************************************************)
(* Input domains of the calculator                                         *)
(***************************************************************************)
Tier(active, cmt, scm, is_club, max_in_doc) ==
    [active |-> active, cmt |-> cmt, scm |-> scm,
     is_club |-> is_club, max_in_doc |-> max_in_doc]

\* max_in_doc = 0 stands for an absent max_in_doc (falsy in the source)
TierDomain ==
    { Tier(1, 2, 10, 0, 0),     \* "2 for 10"
      Tier(1, 3, 15, 0, 6),     \* "3 for 15, max 6"
      Tier(1, 1, 6, 0, 0),      \* applicable from one unit, 6 per unit
      Tier(1, 3, 12, 1, 0),     \* club tier, 4 per unit
      Tier(1, 4, 18, 0, 2),     \* cap below the threshold
      Tier(1, 2, 8, 1, 4),      \* capped club tier
      Tier(1, 5, 20, 0, 0),     \* high threshold
      Tier(0, 2, 10, 0, 0),     \* inactive
      Tier(1, 0, 10, 0, 0),     \* invalid threshold
      Tier(1, 2, 0, 0, 0) }     \* invalid bundle price

RegularPrices == {0, 4, 6}

SaleLists == UNION { [1..n -> TierDomain] : n \in 0..MaxTiers }

(***************************************************************************)
(* Part 1: calculateBestPrice                                              *)
(***************************************************************************)
NoSaleInfo ==
    [kind |-> "none", cmt |-> 0, scm |-> 0, amount |-> 0,
     clubNote |-> FALSE, maxNote |-> 0]

Min(a, b) == IF a < b THEN a ELSE b

\* sale.max_in_doc && sale.max_in_doc > 0
HasMaxInDoc(sale) == sale.max_in_doc # 0 /\ sale.max_in_doc > 0

\* IsApplicable with club-only sales left out
IsApplicable_ClubGated(sale, quantity) ==
    /\ sale.active = 1
    /\ sale.cmt > 0
    /\ sale.scm > 0
    /\ quantity >= sale.cmt
    /\ sale.is_club # 1

\* filter of applicableSales
IsApplicable(sale, quantity) ==
    /\ sale.active = 1
    /\ sale.cmt > 0
    /\ sale.scm > 0
    /\ quantity >= sale.cmt

\* SaleTotal with the leftover units of a partial bundle not charged
SaleTotal_LeftoverFree(sale, regularPrice, quantity) ==
    IF HasMaxInDoc(sale)
    THEN LET discountedQty == Min(quantity, sale.max_in_doc)
         IN  (discountedQty \div sale.cmt) * sale.scm
               + (quantity - discountedQty) * regularPrice
    ELSE (quantity \div sale.cmt) * sale.scm

\* SaleTotal with max_in_doc ignored
SaleTotal_NoCap(sale, regularPrice, quantity) ==
    (quantity \div sale.cmt) * sale.scm
        + (quantity % sale.cmt) * regularPrice

\* saleTotal of one applicable sale, body of the for loop
SaleTotal(sale, regularPrice, quantity) ==
    IF HasMaxInDoc(sale)
    THEN LET discountedQty == Min(quantity, sale.max_in_doc)
             regularQty == quantity - discountedQty
             saleUnits == discountedQty \div sale.cmt
             remainingDiscountedItems == discountedQty % sale.cmt
         IN  saleUnits * sale.scm
               + remainingDiscountedItems * regularPrice
               + regularQty * regularPrice
    ELSE LET saleUnits == quantity \div sale.cmt
             remainingItems == quantity % sale.cmt
         IN  saleUnits * sale.scm + remainingItems * regularPrice

\* BeatsBest that lets an equal total replace the best so far
BeatsBest_OrEqual(saleTotal, bestTotalPrice) == saleTotal <= bestTotalPrice

\* BeatsBest with the comparison reversed
BeatsBest_Greater(saleTotal, bestTotalPrice) == saleTotal > bestTotalPrice

\* if (saleTotal < bestTotalPrice)
BeatsBest(saleTotal, bestTotalPrice) == saleTotal < bestTotalPrice

\* the for loop over applicableSales: best = [idx, total], idx = 0 is null
RECURSIVE BestSaleLoop(_, _, _, _, _)
BestSaleLoop(sales, i, regularPrice, quantity, best) ==
    IF i > Len(sales) THEN best
    ELSE LET saleTotal == SaleTotal(sales[i], regularPrice, quantity)
         IN  BestSaleLoop(sales, i + 1, regularPrice, quantity,
                 IF BeatsBest(saleTotal, best.total)
                 THEN [idx |-> i, total |-> saleTotal]
                 ELSE best)

\* effectiveMaxQty of a sale
EffectiveMaxQty(sale) ==
    IF HasMaxInDoc(sale) THEN Min(sale.cmt, sale.max_in_doc) ELSE sale.cmt

\* filter of potentialSales
IsPotential(sale, quantity) ==
    IF sale.active # 1 \/ sale.cmt <= 0 \/ sale.scm <= 0 THEN FALSE
    ELSE IF HasMaxInDoc(sale) /\ quantity >= sale.max_in_doc THEN FALSE
    ELSE quantity < EffectiveMaxQty(sale)

\* potentialSales.reduce: current replaces best when scm/cmt is lower
RECURSIVE BestPotentialLoop(_, _, _)
BestPotentialLoop(sales, i, best) ==
    IF i > Len(sales) THEN best
    ELSE LET current == sales[i]
         IN  BestPotentialLoop(sales, i + 1,
                 IF current.scm * best.cmt < best.scm * current.cmt
                 THEN current ELSE best)

RegularResult(regularPrice, regularTotal) ==
    [unitPrice |-> [num |-> regularPrice, den |-> 1],
     totalPrice |-> regularTotal,
     saleInfo |-> NoSaleInfo]

\* the early return when no sale is applicable
NoApplicableResult(product, quantity, regularPrice, regularTotal) ==
    RegularResult(regularPrice, regularTotal)

\* PotentialResult charging the bundle price of the first potential sale
PotentialResult_Charged(product, quantity, regularPrice, regularTotal) ==
    LET potentialSales ==
            SelectSeq(product.sale, LAMBDA s : IsPotential(s, quantity))
    IN  IF Len(potentialSales) > 0
        THEN [unitPrice |-> [num |-> potentialSales[1].scm,
                             den |-> potentialSales[1].cmt],
              totalPrice |-> potentialSales[1].scm,
              saleInfo |->
                 [kind |-> "potential",
                  cmt |-> potentialSales[1].cmt,
                  scm |-> potentialSales[1].scm,
                  amount |-> EffectiveMaxQty(potentialSales[1]) - quantity,
                  clubNote |-> potentialSales[1].is_club = 1,
                  maxNote |-> 0]]
        ELSE RegularResult(regularPrice, regularTotal)

\* the tail of calculateBestPrice after the loop found no winning sale
PotentialResult(product, quantity, regularPrice, regularTotal) ==
    LET potentialSales ==
            SelectSeq(product.sale, LAMBDA s : IsPotential(s, quantity))
    IN  IF Len(potentialSales) > 0
        THEN LET bestPotentialSale ==
                     BestPotentialLoop(potentialSales, 2, potentialSales[1])
                 needed == EffectiveMaxQty(bestPotentialSale) - quantity
             IN  [unitPrice |-> [num |-> regularPrice, den |-> 1],
                  totalPrice |-> regularTotal,
                  saleInfo |->
                     [kind |-> "potential",
                      cmt |-> bestPotentialSale.cmt,
                      scm |-> bestPotentialSale.scm,
                      amount |-> needed,
                      clubNote |-> bestPotentialSale.is_club = 1,
                      maxNote |-> IF HasMaxInDoc(bestPotentialSale)
                                  THEN bestPotentialSale.max_in_doc ELSE 0]]
        ELSE RegularResult(regularPrice, regularTotal)

calculateBestPrice(product, quantity) ==
    LET regularPrice == product.price
        regularTotal == regularPrice * quantity
    IN  IF Len(product.sale) = 0 \/ quantity = 0
        THEN RegularResult(regularPrice, regularTotal)
        ELSE
        LET applicableSales ==
                SelectSeq(product.sale, LAMBDA s : IsApplicable(s, quantity))
        IN  IF Len(applicableSales) = 0
            THEN NoApplicableResult(product, quantity,
                                    regularPrice, regularTotal)
            ELSE
            LET best == BestSaleLoop(applicableSales, 1, regularPrice,
                            quantity, [idx |-> 0, total |-> regularTotal])
            IN  IF best.idx # 0
                THEN LET bestSale == applicableSales[best.idx]
                         savings == regularTotal - best.total
                     IN  [unitPrice |-> [num |-> best.total,
                                         den |-> quantity],
                          totalPrice |-> best.total,
                          saleInfo |->
                             [kind |-> "sale",
                              cmt |-> bestSale.cmt,
                              scm |-> bestSale.scm,
                              amount |-> savings,
                              clubNote |-> bestSale.is_club = 1,
                              maxNote |-> IF HasMaxInDoc(bestSale)
                                          THEN bestSale.max_in_doc ELSE 0]]
                ELSE PotentialResult(product, quantity,
                                     regularPrice, regularTotal)

(***************************************************************************)
(* Part 2: adapters, transport and the upstream Rami Levy cart             *)
(***************************************************************************)
\* largest quantity of one cart line
MaxCartQty == 2
\* adapter calls one caller makes one after the other
MaxCalls == 2

\* private store: string = "331"
Store == 331

Callers == {1, 2}

\* the products the upstream catalog may hold
ProductIds == {101, 102}

ProductPrice(pid) == IF pid = 101 THEN 6 ELSE 5

ProductSale(pid) ==
    IF pid = 101 THEN <<Tier(1, 2, 10, 0, 0)>> ELSE <<Tier(1, 2, 8, 1, 4)>>

\* Record<string, number> with no entry
NoItems == [pid \in {} |-> 0]

\* every upstream cart: product id -> quantity
CartMaps ==
    UNION { [ids -> 1..MaxCartQty] : ids \in SUBSET ProductIds }

\* ascending sequence of a finite set of numbers
RECURSIVE SetToSeq(_)
SetToSeq(S) ==
    IF S = {} THEN <<>>
    ELSE LET m == CHOOSE x \in S : \A y \in S : x <= y
         IN  <<m>> \o SetToSeq(S \ {m})

\* `rami-levy-${product.id}`
CartItemId(pid) == <<"rami-levy", pid>>

\* `rami-levy-${product.id}-unavailable`
UnavailableCartItemId(pid) == <<"rami-levy", pid, "-unavailable">>

\* item.id.includes("-unavailable")
IncludesUnavailable(id) == Len(id) = 3 /\ id[3] = "-unavailable"

\* cart item ids handed to the Rami Levy adapter; 999 is in no cart
RamiCartItemIds ==
    { CartItemId(pid) : pid \in ProductIds \cup {999} }
        \cup { UnavailableCartItemId(pid) : pid \in ProductIds }

\* cart item ids handed to Shufersal removeFromCart, split at "_"
ShufersalCartItemIds ==
    { <<"0">>, <<"shufersal", "P", "123", "0">>, <<"abc">>,
      <<"shufersal", "P", "123", "x">> }

\* /^\d+$/.test(entryNumber)
IsNumeric(part) == part \in {"0", "1", "123"}

(***************************************************************************)
(* Part 3: ShoppingSecurity, the argument validators and the error         *)
(*         redaction.  A string is a sequence of one-character strings.    *)
(***************************************************************************)
\* longest run of freely chosen characters at either end of a query
MaxAffix == 2
\* most words an error text is put together from
MaxWords == 3

\* .slice(0, 200) of validateSearchQuery
QueryLimit == 200
\* quantity > 100 of validateQuantity
QuantityLimit == 100
\* .slice(0, 500) of formatSecureError
ErrorLimit == 500

Max(a, b) == IF a > b THEN a ELSE b

\* n copies of the character c
Repeat(c, n) == [i \in 1..n |-> c]

\* every string over an alphabet of at most n characters
StringsUpTo(alphabet, n) == UNION { [1..k -> alphabet] : k \in 0..n }

\* String.prototype.replace(/[...]/g, '') for a character class
RemoveChars(s, chars) == SelectSeq(s, LAMBDA c : c \notin chars)

WhiteSpace == {" ", "\t"}

\* String.prototype.trim
Trim(s) ==
    LET keep == { i \in 1..Len(s) : s[i] \notin WhiteSpace }
    IN  IF keep = {} THEN <<>>
        ELSE SubSeq(s, CHOOSE i \in keep : \A j \in keep : i <= j,
                       CHOOSE i \in keep : \A j \in keep : i >= j)

\* String.prototype.slice(0, n)
Slice(s, n) == SubSeq(s, 1, Min(n, Len(s)))

\* the characters the three replace calls of validateSearchQuery remove
QueryRemovedChars == {"<", ">", "'", "\"", "\\"}

\* ShoppingSecurity.validateSearchQuery; the empty string is falsy
validateSearchQuery(query) ==
    IF query = <<>>
    THEN [isValid |-> FALSE, sanitized |-> <<>>,
          error |-> "Search query is required"]
    ELSE LET sanitized ==
                 Slice(Trim(RemoveChars(query, QueryRemovedChars)),
                       QueryLimit)
         IN  IF Len(sanitized) = 0
             THEN [isValid |-> FALSE, sanitized |-> <<>>,
                   error |->
                       "Search query cannot be empty after sanitization"]
             ELSE IF Len(sanitized) < 2
             THEN [isValid |-> FALSE, sanitized |-> sanitized,
                   error |-> "Search query must be at least 2 characters"]
             ELSE [isValid |-> TRUE, sanitized |-> sanitized, error |-> ""]

\* queries: free characters, a run of letters around the 200-character
\* cut, free characters
QueryAlphabet == {"a", " ", "<"}

QueryInputs ==
    { head \o Repeat("a", n) \o tail :
        head \in StringsUpTo(QueryAlphabet, MaxAffix),
        n \in {0} \cup ((QueryLimit - 3)..QueryLimit),
        tail \in StringsUpTo(QueryAlphabet, MaxAffix) }

\* a JavaScript value handed in as quantity: a finite number num/den,
\* NaN, or a value that is not a number
Number(num, den) == [type |-> "number", nan |-> FALSE, num |-> num,
                     den |-> den]
NaN == [type |-> "number", nan |-> TRUE, num |-> 0, den |-> 1]
NotANumber == [type |-> "string", nan |-> FALSE, num |-> 0, den |-> 1]

\* Number.isInteger
IsInteger(v) == v.type = "number" /\ ~v.nan /\ v.num % v.den = 0

\* ShoppingSecurity.validateQuantity without the upper limit
validateQuantity_NoLimit(quantity) ==
    IF quantity.type # "number" \/ quantity.nan
    THEN [isValid |-> FALSE, error |-> "Quantity must be a number"]
    ELSE IF ~IsInteger(quantity)
    THEN [isValid |-> FALSE, error |-> "Quantity must be a whole number"]
    ELSE IF quantity.num < 0
    THEN [isValid |-> FALSE, error |-> "Quantity cannot be negative"]
    ELSE [isValid |-> TRUE, error |-> ""]

\* ShoppingSecurity.validateQuantity
validateQuantity(quantity) ==
    IF quantity.type # "number" \/ quantity.nan
    THEN [isValid |-> FALSE, error |-> "Quantity must be a number"]
    ELSE IF ~IsInteger(quantity)
    THEN [isValid |-> FALSE, error |-> "Quantity must be a whole number"]
    ELSE IF quantity.num < 0
    THEN [isValid |-> FALSE, error |-> "Quantity cannot be negative"]
    ELSE IF quantity.num > QuantityLimit * quantity.den
    THEN [isValid |-> FALSE, error |-> "Quantity cannot exceed 100"]
    ELSE [isValid |-> TRUE, error |-> ""]

\* z.number().int().min(min).max(100)
QuantitySchema(min, v) ==
    /\ v.type = "number" /\ ~v.nan
    /\ IsInteger(v)
    /\ v.num >= min * v.den
    /\ v.num <= QuantityLimit * v.den

\* AddToCartSchema.quantity
AddToCartSchemaQuantity(v) == QuantitySchema(1, v)

\* UpdateCartQuantitySchema.quantity
UpdateCartQuantitySchemaQuantity(v) == QuantitySchema(0, v)

\* quantities: every half from -1 to past the limit, NaN, a non-number
QuantityInputs ==
    { Number(n, 2) : n \in (-2)..(2 * QuantityLimit + 3) }
        \cup { Number(n, 1) : n \in {-1, 0, 1, QuantityLimit,
                                     QuantityLimit + 1} }
        \cup {NaN, NotANumber}

\* productId.length > 100 and cartItemId.length > 100
IdLimit == 100
\* priceRange.max > 1000000
PriceRangeLimit == 1000000
\* .slice(0, 100) of validateCategory, .slice(0, 200) of validateVariant
CategoryFilterLimit == 100
VariantLimit == 200

Digits == {"0", "1", "2", "3", "4", "5", "6", "7", "8", "9"}

\* the characters validateCartItemId, validateCategory and validateVariant
\* treat as dangerous
DangerousChars == {"<", ">", "'", "\"", "\\"}

\* ShoppingSecurity.validateProductId
validateProductId(productId, website) ==
    IF productId = <<>>
    THEN [isValid |-> FALSE, error |-> "Product ID is required"]
    ELSE LET sanitized == Trim(productId)
         IN  IF Len(sanitized) = 0
             THEN [isValid |-> FALSE, error |-> "Product ID cannot be empty"]
             ELSE IF Len(sanitized) > IdLimit
             THEN [isValid |-> FALSE, error |-> "Product ID too long"]
             ELSE IF website = "rami-levy"
                     /\ \E i \in 1..Len(sanitized) : sanitized[i] \notin Digits
             THEN [isValid |-> FALSE,
                   error |-> "Invalid Rami Levy product ID format"]
             ELSE [isValid |-> TRUE, error |-> ""]

\* ShoppingSecurity.validateCartItemId
validateCartItemId(cartItemId) ==
    IF cartItemId = <<>>
    THEN [isValid |-> FALSE, error |-> "Cart item ID is required"]
    ELSE LET sanitized == Trim(cartItemId)
         IN  IF Len(sanitized) = 0
             THEN [isValid |-> FALSE,
                   error |-> "Cart item ID cannot be empty"]
             ELSE IF Len(sanitized) > IdLimit
             THEN [isValid |-> FALSE, error |-> "Cart item ID too long"]
             ELSE IF \E i \in 1..Len(sanitized) :
                        sanitized[i] \in DangerousChars
             THEN [isValid |-> FALSE,
                   error |-> "Cart item ID contains invalid characters"]
             ELSE [isValid |-> TRUE, error |-> ""]

\* ShoppingSecurity.validatePriceRange; priceRange is [present, min, max]
validatePriceRange(priceRange) ==
    IF ~priceRange.present THEN [isValid |-> TRUE, error |-> ""]
    ELSE IF priceRange.min < 0 \/ priceRange.max < 0
    THEN [isValid |-> FALSE,
          error |-> "Price range values cannot be negative"]
    ELSE IF priceRange.min > priceRange.max
    THEN [isValid |-> FALSE,
          error |-> "Price range minimum cannot be greater than maximum"]
    ELSE IF priceRange.max > PriceRangeLimit
    THEN [isValid |-> FALSE, error |-> "Price range maximum too high"]
    ELSE [isValid |-> TRUE, error |-> ""]

\* validateCategory and validateVariant but for the length limit
ValidateOptionalText(text, limit, what) ==
    IF text = <<>>
    THEN [isValid |-> TRUE, sanitized |-> <<>>, error |-> ""]
    ELSE LET sanitized == Slice(Trim(RemoveChars(text, DangerousChars)),
                                limit)
         IN  IF Len(sanitized) = 0
             THEN [isValid |-> FALSE, sanitized |-> <<>>, error |-> what]
             ELSE [isValid |-> TRUE, sanitized |-> sanitized, error |-> ""]

\* ShoppingSecurity.validateCategory
validateCategory(category) ==
    ValidateOptionalText(category, CategoryFilterLimit,
                         "Category cannot be empty after sanitization")

\* ShoppingSecurity.validateVariant
validateVariant(variant) ==
    ValidateOptionalText(variant, VariantLimit,
                         "Variant cannot be empty after sanitization")

(***************************************************************************)
(* formatSecureError                                                       *)
(***************************************************************************)
UpperCase == <<"A", "B", "C", "D", "E", "F", "G", "H", "I", "J", "K", "L",
               "M", "N", "O", "P", "Q", "R", "S", "T", "U", "V", "W", "X",
               "Y", "Z">>
LowerCase == <<"a", "b", "c", "d", "e", "f", "g", "h", "i", "j", "k", "l",
               "m", "n", "o", "p", "q", "r", "s", "t", "u", "v", "w", "x",
               "y", "z">>

\* the i flag of a regular expression compares letters in lower case
LowerOf ==
    [c \in { UpperCase[k] : k \in 1..Len(UpperCase) } |->
        LowerCase[CHOOSE k \in 1..Len(UpperCase) : UpperCase[k] = c]]

ToLower(c) == IF c \in DOMAIN LowerOf THEN LowerOf[c] ELSE c

\* a pattern word[sep]?tail, or the literal word when tail is empty
Pattern(word, sep, tail) == [word |-> word, sep |-> sep, tail |-> tail]

\* /api[_-]?key/gi
ApiKeyPattern == Pattern(<<"a", "p", "i">>, {"_", "-"}, <<"k", "e", "y">>)
\* /token/gi, /password/gi, /secret/gi, /credential/gi
TokenPattern == Pattern(<<"t", "o", "k", "e", "n">>, {}, <<>>)
PasswordPattern ==
    Pattern(<<"p", "a", "s", "s", "w", "o", "r", "d">>, {}, <<>>)
SecretPattern == Pattern(<<"s", "e", "c", "r", "e", "t">>, {}, <<>>)
CredentialPattern ==
    Pattern(<<"c", "r", "e", "d", "e", "n", "t", "i", "a", "l">>, {}, <<>>)

\* '[<<"[", "R", "E", "D", "A", "C", "T", "E", "D", "]">>]'
Redacted == <<"[", "R", "E", "D", "A", "C", "T", "E", "D", "]">>

\* the literal w stands at position i of s, letter case ignored
LiteralAt(s, i, w) ==
    /\ i + Len(w) - 1 <= Len(s)
    /\ \A k \in 1..Len(w) : ToLower(s[i + k - 1]) = w[k]

\* length of the match of pat that starts at position i of s, 0 for none
MatchLen(s, i, pat) ==
    IF ~LiteralAt(s, i, pat.word) THEN 0
    ELSE IF pat.tail = <<>> THEN Len(pat.word)
    ELSE LET j == i + Len(pat.word)
         IN  IF j <= Len(s) /\ s[j] \in pat.sep
                  /\ LiteralAt(s, j + 1, pat.tail)
             THEN Len(pat.word) + 1 + Len(pat.tail)
             ELSE IF LiteralAt(s, j, pat.tail)
             THEN Len(pat.word) + Len(pat.tail)
             ELSE 0

\* String.prototype.replace(/pat/gi, rep) from position i on: matches are
\* taken left to right and do not overlap
RECURSIVE ReplaceFrom(_, _, _, _)
ReplaceFrom(s, i, pat, rep) ==
    LET starts == { j \in i..Len(s) : MatchLen(s, j, pat) > 0 }
    IN  IF starts = {} THEN SubSeq(s, i, Len(s))
        ELSE LET j == CHOOSE x \in starts : \A y \in starts : x <= y
             IN  SubSeq(s, i, j - 1) \o rep
                    \o ReplaceFrom(s, j + MatchLen(s, j, pat), pat, rep)

ReplaceAll(s, pat, rep) == ReplaceFrom(s, 1, pat, rep)

\* ShoppingSecurity.formatSecureError
formatSecureError(error) ==
    Slice(
        ReplaceAll(
            ReplaceAll(
                ReplaceAll(
                    ReplaceAll(
                        ReplaceAll(error, ApiKeyPattern, Redacted),
                        TokenPattern, Redacted),
                    PasswordPattern, Redacted),
                SecretPattern, Redacted),
            CredentialPattern, Redacted),
        ErrorLimit)

\* words error texts are put together from
ErrorWords ==
    { <<"t", "o", "k", "e", "n">>, <<"A", "P", "I">>, <<"_">>, <<" ">>,
      <<"k", "e", "y">>, <<"p", "a", "s", "s", "w", "o", "r", "d">>,
      <<"s", "e", "c", "r", "e", "t">>,
      <<"c", "r", "e", "d", "e", "n", "t", "i", "a", "l">>,
      <<"t", "o">>, <<"k", "e", "n">> }

RECURSIVE Concat(_)
Concat(words) ==
    IF words = <<>> THEN <<>> ELSE Head(words) \o Concat(Tail(words))

\* error texts: up to MaxWords words, and one word after a run of filler
\* that ends near the 500-character cut
ErrorInputs ==
    { Concat(words) :
        words \in UNION { [1..k -> ErrorWords] : k \in 0..MaxWords } }
    \cup { Repeat("x", n) \o word :
             n \in (ErrorLimit - 12)..ErrorLimit, word \in ErrorWords }

(***************************************************************************)
(* Part 4: searchProducts, from the upstream items to sanitized Products.  *)
(*         An absent string is the empty string (both are falsy), an       *)
(*         absent URL is NoUrl; hasMore is left out.                       *)
(***************************************************************************)
\* most items in one upstream search response
MaxItems == 2

\* .slice(0, 200), .slice(0, 1000) and .slice(0, 100) of sanitizeProduct
TitleLimit == 200
DescriptionLimit == 1000
CategoryLimit == 100
\* Math.min(..., 5) of sanitizeProduct
RatingLimit == 5

\* undefined or null
Undefined == [type |-> "undefined", nan |-> FALSE, num |-> 0, den |-> 1]

\* an object with a value property, as Shufersal nests prices, and with a
\* price property, as Rami Levy does
ValueObject(v) == [type |-> "object", value |-> v]

\* an optional number of a Product
Absent == [present |-> FALSE, value |-> 0]
Present(n) == [present |-> TRUE, value |-> n]

\* a URL by its scheme and the rest; a relative reference has no scheme
Url(scheme, rest) == [scheme |-> scheme, rest |-> rest]
NoUrl == Url("", "")

\* url.startsWith("http")
StartsWithHttp(url) == url.scheme \in {"http", "https", "httpx"}

\* typeof v === "number"
IsNumberType(v) == v.type = "number"

\* Number(v) || 0 for the whole prices of the model
NumberOrZero(v) == IF v.type = "number" /\ ~v.nan THEN v.num \div v.den ELSE 0

\* a truthy number: neither absent nor NaN nor 0
TruthyNumber(v) == v.type = "number" /\ ~v.nan /\ v.num # 0

\* BaseShoppingAdapter.sanitizeUrl
sanitizeUrl(url) ==
    IF url = NoUrl THEN NoUrl
    ELSE IF url.scheme = "" THEN NoUrl
    ELSE IF url.scheme # "http" /\ url.scheme # "https" THEN NoUrl
    ELSE url

\* String(text || '').replace(/[<>]/g, '').slice(0, limit)
SanitizeText(text, limit) == Slice(RemoveChars(text, {"<", ">"}), limit)

\* sanitizeProduct with the title handed on as it is
sanitizeProduct_RawTitle(product) ==
    [id |-> product.id,
     title |-> product.title,
     description |-> SanitizeText(product.description, DescriptionLimit),
     price |-> NumberOrZero(product.price),
     currency |-> product.currency,
     imageUrl |-> sanitizeUrl(product.imageUrl),
     availability |-> product.availability,
     rating |-> IF TruthyNumber(product.rating)
                THEN Present(Min(Max(NumberOrZero(product.rating), 0),
                                 RatingLimit))
                ELSE Absent,
     reviewCount |-> IF TruthyNumber(product.reviewCount)
                     THEN Present(Max(NumberOrZero(product.reviewCount), 0))
                     ELSE Absent,
     category |-> SanitizeText(product.category, CategoryLimit),
     brand |-> SanitizeText(product.brand, CategoryLimit),
     url |-> sanitizeUrl(product.url)]

\* BaseShoppingAdapter.sanitizeProduct
sanitizeProduct(product) ==
    [id |-> product.id,
     title |-> SanitizeText(product.title, TitleLimit),
     description |-> SanitizeText(product.description, DescriptionLimit),
     price |-> NumberOrZero(product.price),
     currency |-> product.currency,
     imageUrl |-> sanitizeUrl(product.imageUrl),
     availability |-> product.availability,
     rating |-> IF TruthyNumber(product.rating)
                THEN Present(Min(Max(NumberOrZero(product.rating), 0),
                                 RatingLimit))
                ELSE Absent,
     reviewCount |-> IF TruthyNumber(product.reviewCount)
                     THEN Present(Max(NumberOrZero(product.reviewCount), 0))
                     ELSE Absent,
     category |-> SanitizeText(product.category, CategoryLimit),
     brand |-> SanitizeText(product.brand, CategoryLimit),
     url |-> sanitizeUrl(product.url)]

\* an upstream search item; Rami Levy reads id, name, price.price and
\* images.small, Shufersal the other fields
PlainItem ==
    [id |-> 101, name |-> <<"a", "b">>,
     price |-> ValueObject(Number(6, 1)),
     categoryPrice |-> Undefined, pricePerUnit |-> Undefined,
     effectivePrice |-> Undefined,
     brandName |-> <<>>, secondLevelCategory |-> <<>>,
     url |-> NoUrl, imagesSmall |-> FALSE,
     baseProductImageLarge |-> NoUrl, baseProductImageMedium |-> NoUrl,
     inStock |-> TRUE,
     averageRating |-> Undefined, numberOfReviews |-> Undefined]

RawItemDomain ==
    { PlainItem,
      \* a cheaper product with a picture and ratings
      [PlainItem EXCEPT !.id = 102, !.price = Number(4, 1),
          !.imagesSmall = TRUE,
          !.baseProductImageLarge = Url("https", "/img/102.png"),
          !.averageRating = Number(3, 1), !.numberOfReviews = Number(10, 1)],
      \* markup in the name, the brand and the category
      [PlainItem EXCEPT !.id = 103,
          !.name = <<"<", "b", ">", "x", "<", "/", "b", ">">>,
          !.brandName = <<"<", "i", ">">>,
          !.secondLevelCategory = <<"c", ">">>,
          !.price = ValueObject(Number(5, 1))],
      \* texts longer than every cut
      [PlainItem EXCEPT !.id = 104,
          !.name = Repeat("n", TitleLimit - 1) \o <<"<", "x", ">">>
                      \o Repeat("n", DescriptionLimit),
          !.brandName = Repeat("b", CategoryLimit + 1),
          !.secondLevelCategory = Repeat("c", CategoryLimit + 1)],
      \* a negative price
      [PlainItem EXCEPT !.id = 105, !.price = ValueObject(Number(-5, 1)),
          !.effectivePrice = Number(3, 1)],
      \* no price but a category price, ratings out of range
      [PlainItem EXCEPT !.id = 106, !.price = Undefined,
          !.categoryPrice = ValueObject(Number(7, 1)),
          !.averageRating = Number(7, 1), !.numberOfReviews = Number(-3, 1)],
      \* a price that is not a number, a negative rating
      [PlainItem EXCEPT !.id = 107, !.price = ValueObject(NotANumber),
          !.pricePerUnit = ValueObject(Number(2, 1)),
          !.averageRating = Number(-1, 1), !.numberOfReviews = NaN],
      \* NaN as price, links that are not http links
      [PlainItem EXCEPT !.id = 108, !.price = NaN,
          !.url = Url("httpx", "//x"), !.inStock = FALSE,
          !.baseProductImageLarge = Url("javascript", "alert(1)")],
      \* a relative link and a relative picture
      [PlainItem EXCEPT !.id = 109, !.price = ValueObject(Undefined),
          !.effectivePrice = Number(-2, 1),
          !.url = Url("", "/p/109"),
          !.baseProductImageMedium = Url("", "/img/109.png")] }

\* upstream search responses: up to MaxItems items
Catalogs == UNION { [1..n -> RawItemDomain] : n \in 0..MaxItems }

\* ProductSearchOptions: category and priceRange as the adapters use them
NoPriceRange == [present |-> FALSE, min |-> 0, max |-> 0]
PriceRange(min, max) == [present |-> TRUE, min |-> min, max |-> max]

SearchOptions ==
    {[category |-> <<>>, priceRange |-> NoPriceRange],
     [category |-> <<"<", "c", ">">>, priceRange |-> PriceRange(0, 5)]}

\* item.price.price of the Rami Levy transform; FALSE when item.price is
\* undefined and the read throws
RamiPriceReadable(item) == item.price # Undefined

RamiPrice(item) ==
    IF item.price.type = "object" THEN item.price.value ELSE Undefined

\* the map callback of RamiLevyAdapter.searchProducts
RamiProduct(item, options) ==
    sanitizeProduct(
        [id |-> item.id,
         title |-> item.name,
         description |-> item.name,
         price |-> RamiPrice(item),
         currency |-> "ILS",
         imageUrl |-> IF item.imagesSmall
                      THEN Url("https", "www.rami-levy.co.il/small")
                      ELSE NoUrl,
         availability |-> TRUE,
         rating |-> Undefined,
         reviewCount |-> Undefined,
         category |-> options.category,
         brand |-> <<"R", "a", "m", "i", " ", "L", "e", "v", "y">>,
         url |-> NoUrl])

\* priceNum of the Shufersal transform
ShufersalPriceNum(item) ==
    IF IsNumberType(item.price) THEN item.price
    ELSE IF item.price.type = "object" /\ IsNumberType(item.price.value)
    THEN item.price.value
    ELSE IF item.categoryPrice.type = "object"
            /\ IsNumberType(item.categoryPrice.value)
    THEN item.categoryPrice.value
    ELSE IF item.pricePerUnit.type = "object"
            /\ IsNumberType(item.pricePerUnit.value)
    THEN item.pricePerUnit.value
    ELSE IF IsNumberType(item.effectivePrice) THEN item.effectivePrice
    ELSE Number(0, 1)

\* url of the Shufersal transform
ShufersalUrl(item) ==
    IF item.url # NoUrl
    THEN IF StartsWithHttp(item.url) THEN item.url
         ELSE Url("https", item.url.rest)
    ELSE Url("https", "www.shufersal.co.il/online/he/product")

\* imageUrl of the Shufersal transform
ShufersalImageUrl(item) ==
    IF item.baseProductImageLarge # NoUrl THEN item.baseProductImageLarge
    ELSE item.baseProductImageMedium

\* the map callback of ShufersalAdapter.searchProducts
ShufersalProduct(item) ==
    sanitizeProduct(
        [id |-> item.id,
         title |-> item.name,
         description |-> IF item.brandName # <<>>
                         THEN item.name \o <<" ", "-", " ">>
                                 \o item.brandName
                         ELSE item.name,
         price |-> ShufersalPriceNum(item),
         currency |-> "ILS",
         imageUrl |-> ShufersalImageUrl(item),
         availability |-> item.inStock,
         rating |-> IF IsNumberType(item.averageRating)
                    THEN item.averageRating ELSE Undefined,
         reviewCount |-> IF IsNumberType(item.numberOfReviews)
                         THEN item.numberOfReviews ELSE Undefined,
         category |-> item.secondLevelCategory,
         brand |-> item.brandName,
         url |-> ShufersalUrl(item)])

\* product.price >= priceRange.min && product.price <= priceRange.max
InPriceRange(product, priceRange) ==
    product.price >= priceRange.min /\ product.price <= priceRange.max

\* ProductSearchResult
SearchResult(products) ==
    [products |-> products, totalCount |-> Len(products)]

\* RamiLevyAdapter.searchProducts from the transform on: the price range
\* filter is commented out in the source
RamiSearchResult(data, options) ==
    SearchResult([i \in 1..Len(data) |-> RamiProduct(data[i], options)])

\* ShufersalAdapter.searchProducts from the transform on
ShufersalSearchResult(results, options) ==
    LET products == [i \in 1..Len(results) |-> ShufersalProduct(results[i])]
    IN  SearchResult(
            IF options.priceRange.present
            THEN SelectSeq(products, LAMBDA product :
                     InPriceRange(product, options.priceRange))
            ELSE products)

(***************************************************************************)
(* State                                                                   *)
(***************************************************************************)
VARIABLES
    product,      \* calculator input: [price, sale]
    quantity,     \* calculator input
    priceInfo,    \* calculator output, or NoPriceInfo before the call
    priceDone,    \* TRUE once calculateBestPrice has returned
    cart,         \* upstream Rami Levy cart.items: product id -> quantity
    listed,       \* product ids the upstream /items endpoint returns
    availableIn,  \* product ids whose available_in holds the store
    shufersalCredentials, \* which Shufersal auth values are present
    catalog,      \* items the upstream search endpoints answer with
    callsLeft,    \* adapter calls each caller may still start
    proc,         \* per caller: the adapter call in progress
    input,        \* validator input: [fn, value]
    output,       \* validator output: [done, value]
    adapters,     \* the factory's registry: website -> adapter instance
    constructed,  \* adapters constructed so far
    tool,         \* per caller: the tool call in progress or last made
    storage,      \* chrome.storage.local under 'shopai_conversations'
    now           \* the extension's clock, in operations

vars == <<product, quantity, priceInfo, priceDone, cart, listed,
          availableIn, shufersalCredentials, catalog, callsLeft, proc,
          input, output, adapters, constructed, tool, storage, now>>

priceVars == <<product, quantity, priceInfo, priceDone>>
upstreamVars == <<listed, availableIn, shufersalCredentials, catalog>>
adapterVars == <<cart, upstreamVars, callsLeft, proc>>
validatorVars == <<input, output>>
toolVars == <<adapters, constructed, tool>>
\* what no adapter method touches
conversationVars == <<storage, now>>
nonAdapterVars == <<priceVars, validatorVars, toolVars, conversationVars>>

(***************************************************************************)
(* Results                                                                 *)
(***************************************************************************)
\* BaseShoppingAdapter.createErrorResult
createErrorResult(website, error) ==
    [success |-> FALSE, error |-> error, kind |-> "error",
     data |-> FALSE, website |-> website]

\* BaseShoppingAdapter.createSuccessResult; kind names the type of data
createSuccessResult(website, kind, data) ==
    [success |-> TRUE, error |-> "", kind |-> kind,
     data |-> data, website |-> website]

NoResult ==
    [success |-> FALSE, error |-> "", kind |-> "none",
     data |-> FALSE, website |-> ""]

NoCartItem ==
    [id |-> <<>>, productId |-> 0, quantity |-> 0,
     unitPrice |-> [num |-> 0, den |-> 1], totalPrice |-> 0]

NoOptions == [category |-> <<>>, priceRange |-> NoPriceRange]

IdleProc ==
    [pc |-> "idle", website |-> "", method |-> "", cartItemId |-> <<>>,
     options |-> NoOptions,
     quantity |-> 0, productId |-> 0, snap |-> NoItems, payload |-> NoItems,
     itemToUpdate |-> NoCartItem, stale |-> FALSE, result |-> NoResult,
     log |-> <<>>]

(***************************************************************************)
(* RamiLevyAdapter.getCartContents                                         *)
(***************************************************************************)
\* one element of RamiLevyProductsResponse.data
RamiLevyProductData(pid) ==
    [id |-> pid, price |-> ProductPrice(pid), sale |-> ProductSale(pid),
     available_in |-> IF pid \in availableIn THEN {Store} ELSE {}]

\* data of the POST /items response for the requested ids
ItemsResponseData(productIds) ==
    LET ids == SetToSeq(productIds \cap listed)
    IN  [i \in 1..Len(ids) |-> RamiLevyProductData(ids[i])]

\* cartItems[product.id.toString()] || 0
CartQuantity(cartItems, pid) ==
    IF pid \in DOMAIN cartItems THEN cartItems[pid] ELSE 0

\* element of availableCartItems
AvailableCartItem(p, cartItems) ==
    LET qty == CartQuantity(cartItems, p.id)
        info == calculateBestPrice(p, qty)
    IN  [id |-> CartItemId(p.id), productId |-> p.id, quantity |-> qty,
         unitPrice |-> info.unitPrice, totalPrice |-> info.totalPrice]

\* UnavailableCartItem charging the quoted price
UnavailableCartItem_Priced(p, cartItems) ==
    LET qty == CartQuantity(cartItems, p.id)
    IN  [id |-> UnavailableCartItemId(p.id), productId |-> p.id,
         quantity |-> qty, unitPrice |-> [num |-> p.price, den |-> 1],
         totalPrice |-> p.price * qty]

\* element of unavailableCartItems
UnavailableCartItem(p, cartItems) ==
    LET qty == CartQuantity(cartItems, p.id)
    IN  [id |-> UnavailableCartItemId(p.id), productId |-> p.id,
         quantity |-> qty, unitPrice |-> [num |-> p.price, den |-> 1],
         totalPrice |-> 0]

\* cartItemsResult.reduce((sum, item) => sum + item.quantity, 0)
RECURSIVE ReduceQuantity(_, _, _)
ReduceQuantity(items, i, sum) ==
    IF i > Len(items) THEN sum
    ELSE ReduceQuantity(items, i + 1, sum + items[i].quantity)

\* availableCartItems.reduce((sum, item) => sum + (item.totalPrice || 0), 0)
RECURSIVE ReduceTotalPrice(_, _, _)
ReduceTotalPrice(items, i, sum) ==
    IF i > Len(items) THEN sum
    ELSE ReduceTotalPrice(items, i + 1, sum + items[i].totalPrice)

EmptyCart ==
    [items |-> <<>>, totalItems |-> 0, totalPrice |-> 0, currency |-> "ILS"]

\* steps 3 and 4 of getCartContents: partition by store, price, total
BuildCart(cartItems, data) ==
    LET availableProducts ==
            SelectSeq(data, LAMBDA p : Store \in p.available_in)
        unavailableProducts ==
            SelectSeq(data, LAMBDA p : ~(Store \in p.available_in))
        availableCartItems ==
            [i \in 1..Len(availableProducts) |->
                AvailableCartItem(availableProducts[i], cartItems)]
        unavailableCartItems ==
            [i \in 1..Len(unavailableProducts) |->
                UnavailableCartItem(unavailableProducts[i], cartItems)]
        cartItemsResult == availableCartItems \o unavailableCartItems
    IN  [items |-> cartItemsResult,
         totalItems |-> ReduceQuantity(cartItemsResult, 1, 0),
         totalPrice |-> ReduceTotalPrice(availableCartItems, 1, 0),
         currency |-> "ILS"]

\* FindItem that takes the first item whatever its id
FindItem_Any(items, cartItemId) ==
    IF Len(items) > 0 THEN 1 ELSE 0

\* currentCart.items.find((item) => item.id === cartItemId): index or 0
FindItem(items, cartItemId) ==
    IF \E i \in 1..Len(items) : items[i].id = cartItemId
    THEN CHOOSE i \in 1..Len(items) :
            /\ items[i].id = cartItemId
            /\ \A j \in 1..(i - 1) : items[j].id # cartItemId
    ELSE 0

\* reduce into Record<productId, quantity>: a later item overwrites
ItemsRecord(items) ==
    [pid \in { items[i].productId : i \in 1..Len(items) } |->
        LET last == CHOOSE i \in 1..Len(items) :
                       /\ items[i].productId = pid
                       /\ \A j \in (i + 1)..Len(items) :
                             items[j].productId # pid
        IN  items[last].quantity]

\* RemoveUpdatedItems computed from the upstream cart as it is now
RemoveUpdatedItems_Fresh(currentCart, cartItemId) ==
    LET fresh == BuildCart(cart, ItemsResponseData(DOMAIN cart))
    IN  ItemsRecord(SelectSeq(fresh.items, LAMBDA item :
            item.id # cartItemId /\ ~IncludesUnavailable(item.id)))

\* updatedItems of removeFromCart
RemoveUpdatedItems(currentCart, cartItemId) ==
    ItemsRecord(SelectSeq(currentCart.items, LAMBDA item :
        item.id # cartItemId /\ ~IncludesUnavailable(item.id)))

\* updatedItems of updateCartQuantity
UpdateUpdatedItems(currentCart, cartItemId, newQuantity) ==
    LET kept == SelectSeq(currentCart.items, LAMBDA item :
                    ~IncludesUnavailable(item.id))
    IN  ItemsRecord([i \in 1..Len(kept) |->
            IF kept[i].id = cartItemId
            THEN [kept[i] EXCEPT !.quantity = newQuantity]
            ELSE kept[i]])

(***************************************************************************)
(* Requests: a label names one request of one (nested) method call         *)
(***************************************************************************)
UserPcs ==
    {"gc.user", "rm.gc.user", "up.gc1.user", "up.rm.gc.user", "up.gc2.user"}
ItemsPcs ==
    {"gc.items", "rm.gc.items", "up.gc1.items", "up.rm.gc.items",
     "up.gc2.items"}
CartPostPcs == {"rm.post", "up.post", "up.rm.post"}

\* the POST /items request that follows a GET of the customer
ItemsPcOf(pc) ==
    CASE pc = "gc.user" -> "gc.items"
      [] pc = "rm.gc.user" -> "rm.gc.items"
      [] pc = "up.gc1.user" -> "up.gc1.items"
      [] pc = "up.rm.gc.user" -> "up.rm.gc.items"
      [] pc = "up.gc2.user" -> "up.gc2.items"

\* the getCartContents call a request belongs to
GetCartCallOf(pc) ==
    CASE pc \in {"gc.user", "gc.items"} -> "gc"
      [] pc \in {"rm.gc.user", "rm.gc.items"} -> "rm.gc"
      [] pc \in {"up.gc1.user", "up.gc1.items"} -> "up.gc1"
      [] pc \in {"up.rm.gc.user", "up.rm.gc.items"} -> "up.rm.gc"
      [] pc \in {"up.gc2.user", "up.gc2.items"} -> "up.gc2"

\* the transport resolves or rejects the request in flight
Outcome(l, outcome) ==
    [l EXCEPT !.log[Len(l.log)].outcome = outcome]

\* await of a transport request: the call waits at the label
Issue(l, label) ==
    [l EXCEPT !.pc = label,
              !.log = Append(@, [req |-> label, outcome |-> "pending"])]

\* Issue that sends the request again after a rejection
Return_Retry(l, res) ==
    IF Len(l.log) > 0 /\ l.log[Len(l.log)].outcome = "reject"
       /\ Len(l.log) < 6
    THEN Issue(l, l.pc)
    ELSE [l EXCEPT !.pc = "done", !.result = res, !.payload = NoItems,
                   !.itemToUpdate = NoCartItem]

\* the method returns its result to the caller
Return(l, res) ==
    [l EXCEPT !.pc = "done", !.result = res, !.payload = NoItems,
              !.itemToUpdate = NoCartItem]

(***************************************************************************)
(* Rami Levy: continuations after an awaited call                          *)
(***************************************************************************)
\* what the caller of getCartContents does with its result
AfterGetCartContents(l, res) ==
    LET call == GetCartCallOf(l.pc)
    IN
    CASE call = "gc" -> Return(l, res)
      [] call = "rm.gc" ->
            IF ~res.success
            THEN Return(l, createErrorResult("rami-levy",
                            "Failed to get current cart contents"))
            ELSE Issue([l EXCEPT !.payload =
                            RemoveUpdatedItems(res.data, l.cartItemId)],
                       "rm.post")
      [] call = "up.gc1" ->
            IF ~res.success
            THEN Return(l, createErrorResult("rami-levy",
                            "Failed to get current cart contents"))
            ELSE LET idx == FindItem(res.data.items, l.cartItemId)
                 IN  IF idx = 0
                     THEN Return(l, createErrorResult("rami-levy",
                                     "Cart item not found"))
                     ELSE IF l.quantity = 0
                     THEN Issue([l EXCEPT !.itemToUpdate =
                                     res.data.items[idx]], "up.rm.gc.user")
                     ELSE Issue([l EXCEPT !.payload =
                                     UpdateUpdatedItems(res.data,
                                         l.cartItemId, l.quantity)],
                                "up.post")
      [] call = "up.rm.gc" ->
            IF ~res.success
            THEN Return(l, createErrorResult("rami-levy",
                            "Failed to get current cart contents"))
            ELSE Issue([l EXCEPT !.payload =
                            RemoveUpdatedItems(res.data, l.cartItemId)],
                       "up.rm.post")
      [] call = "up.gc2" ->
            IF ~res.success
            THEN Return(l, createErrorResult("rami-levy",
                            "Failed to get updated cart contents"))
            ELSE LET idx == FindItem(res.data.items, l.cartItemId)
                 IN  IF idx = 0
                     THEN Return(l, createErrorResult("rami-levy",
                              "Updated item not found in cart after update"))
                     ELSE Return(l, createSuccessResult("rami-levy",
                                     "item", res.data.items[idx]))

\* AfterUpdateCart that does not look at updateResult.success
AfterUpdateCart_IgnoreFailure(l, res) ==
    CASE l.pc = "rm.post" ->
            Return(l, createSuccessResult("rami-levy", "bool", TRUE))
      [] l.pc = "up.rm.post" ->
            Return(l, createSuccessResult("rami-levy", "item",
                     [id |-> l.cartItemId,
                      productId |-> l.itemToUpdate.productId,
                      quantity |-> 0,
                      unitPrice |-> l.itemToUpdate.unitPrice,
                      totalPrice |-> 0]))
      [] l.pc = "up.post" -> Issue(l, "up.gc2.user")

\* what the caller of updateCart does with its result
AfterUpdateCart(l, res) ==
    CASE l.pc = "rm.post" -> Return(l, res)
      [] l.pc = "up.rm.post" ->
            IF ~res.success
            THEN Return(l, createErrorResult("rami-levy", res.error))
            ELSE Return(l, createSuccessResult("rami-levy", "item",
                     [id |-> l.cartItemId,
                      productId |-> l.itemToUpdate.productId,
                      quantity |-> 0,
                      unitPrice |-> l.itemToUpdate.unitPrice,
                      totalPrice |-> 0]))
      [] l.pc = "up.post" ->
            IF ~res.success
            THEN Return(l, createErrorResult("rami-levy", res.error))
            ELSE Issue(l, "up.gc2.user")

(***************************************************************************)
(* Actions: a caller starts an adapter method                              *)
(***************************************************************************)
CanCall(p) == proc[p].pc \in {"idle", "done"} /\ callsLeft[p] > 0

StartCall(p, l) ==
    /\ proc' = [proc EXCEPT ![p] = l]
    /\ callsLeft' = [callsLeft EXCEPT ![p] = @ - 1]
    /\ UNCHANGED <<nonAdapterVars, cart, upstreamVars>>

NewCall(website, method) ==
    [IdleProc EXCEPT !.website = website, !.method = method]

\* the adapter methods up to their first request, as the call they start
RamiSearchCall(options) ==
    Issue([NewCall("rami-levy", "searchProducts") EXCEPT
               !.options = options], "search")

RamiAddCall(pid, q) ==
    Issue([NewCall("rami-levy", "addToCart") EXCEPT
               !.productId = pid, !.quantity = q,
               !.payload = [i \in {pid} |-> q]], "add")

RamiGetCartCall == Issue(NewCall("rami-levy", "getCartContents"), "gc.user")

RamiRemoveCall(id) ==
    Issue([NewCall("rami-levy", "removeFromCart") EXCEPT
               !.cartItemId = id], "rm.gc.user")

RamiUpdateCall(id, q) ==
    Issue([NewCall("rami-levy", "updateCartQuantity") EXCEPT
               !.cartItemId = id, !.quantity = q], "up.gc1.user")

\* RamiLevyAdapter.searchProducts up to the POST /catalog
RamiSearchProducts(p) ==
    /\ CanCall(p)
    /\ \E options \in SearchOptions : StartCall(p, RamiSearchCall(options))

\* RamiLevyAdapter.addToCart up to the POST /v2/cart
RamiAddToCart(p) ==
    /\ CanCall(p)
    /\ \E pid \in ProductIds, q \in 1..MaxCartQty :
          StartCall(p, RamiAddCall(pid, q))

\* RamiLevyAdapter.getCartContents up to the GET of the customer
RamiGetCartContents(p) ==
    /\ CanCall(p)
    /\ StartCall(p, RamiGetCartCall)

\* RamiLevyAdapter.removeFromCart up to the GET of its getCartContents
RamiRemoveFromCart(p) ==
    /\ CanCall(p)
    /\ \E id \in RamiCartItemIds : StartCall(p, RamiRemoveCall(id))

\* RamiLevyAdapter.updateCartQuantity up to the GET of its getCartContents
RamiUpdateCartQuantity(p) ==
    /\ CanCall(p)
    /\ \E id \in RamiCartItemIds, q \in 0..MaxCartQty :
          StartCall(p, RamiUpdateCall(id, q))

(***************************************************************************)
(* Actions: the transport answers a Rami Levy request                      *)
(***************************************************************************)
Step(p, l) ==
    /\ proc' = [proc EXCEPT ![p] = l]
    /\ UNCHANGED <<nonAdapterVars, cart, upstreamVars, callsLeft>>

\* POST /catalog answers: searchProducts from the response on
RamiSearchResponse(p) ==
    /\ proc[p].pc = "search"
    /\ \E outcome \in {"ok", "bad", "reject"} :
          LET l == Outcome(proc[p], outcome)
          IN  Step(p,
                CASE outcome = "reject" ->
                        Return(l, createErrorResult("rami-levy",
                            "Failed to search products on Rami Levy"))
                  [] outcome = "bad" ->
                        Return(l, createErrorResult("rami-levy",
                            "Search request failed"))
                  [] outcome = "ok" ->
                        IF \E i \in 1..Len(catalog) :
                               ~RamiPriceReadable(catalog[i])
                        THEN Return(l, createErrorResult("rami-levy",
                                 "Failed to search products on Rami Levy"))
                        ELSE Return(l, createSuccessResult("rami-levy",
                                 "search",
                                 RamiSearchResult(catalog, l.options))))

\* POST /v2/cart of addToCart answers; the upstream cart becomes the payload
RamiAddResponse(p) ==
    /\ proc[p].pc = "add"
    /\ \E outcome \in {"ok", "bad", "reject"} :
          LET l == Outcome(proc[p], outcome)
              pid == proc[p].productId
          IN  /\ proc' = [proc EXCEPT ![p] =
                    CASE outcome = "reject" ->
                            Return(l, createErrorResult("rami-levy",
                                "Failed to add product to Rami Levy cart"))
                      [] outcome = "bad" ->
                            Return(l, createErrorResult("rami-levy",
                                "Failed to add item to cart"))
                      [] outcome = "ok" ->
                            Return(l, createSuccessResult("rami-levy",
                                "item",
                                [id |-> CartItemId(pid),
                                 productId |-> pid,
                                 quantity |-> proc[p].quantity,
                                 unitPrice |-> [num |-> ProductPrice(pid),
                                                den |-> 1],
                                 totalPrice |-> ProductPrice(pid)
                                                  * proc[p].quantity]))]
              /\ cart' = IF outcome = "ok" THEN proc[p].payload ELSE cart
              /\ UNCHANGED <<nonAdapterVars, upstreamVars, callsLeft>>

\* GET /v2/site/clubs/customer/{userId} answers inside getCartContents
RamiUserResponse(p) ==
    /\ proc[p].pc \in UserPcs
    /\ \E outcome \in {"ok", "reject"} :
          LET l == Outcome(proc[p], outcome)
          IN  Step(p,
                IF outcome = "reject"
                THEN AfterGetCartContents(l, createErrorResult("rami-levy",
                         "Failed to get Rami Levy cart contents"))
                ELSE IF DOMAIN cart = {}
                THEN AfterGetCartContents(
                         [l EXCEPT !.snap = cart, !.stale = FALSE],
                         createSuccessResult("rami-levy", "cart", EmptyCart))
                ELSE Issue([l EXCEPT !.snap = cart, !.stale = FALSE],
                           ItemsPcOf(l.pc)))

\* POST /items answers inside getCartContents
RamiItemsResponse(p) ==
    /\ proc[p].pc \in ItemsPcs
    /\ \E outcome \in {"ok", "bad", "reject"} :
          LET l == Outcome(proc[p], outcome)
          IN  Step(p,
                CASE outcome = "reject" ->
                        AfterGetCartContents(l,
                            createErrorResult("rami-levy",
                                "Failed to get Rami Levy cart contents"))
                  [] outcome = "bad" ->
                        AfterGetCartContents(l,
                            createErrorResult("rami-levy",
                                "Failed to get product details from cart"))
                  [] outcome = "ok" ->
                        AfterGetCartContents(l,
                            createSuccessResult("rami-levy", "cart",
                                BuildCart(l.snap,
                                    ItemsResponseData(DOMAIN l.snap)))))

\* POST /v2/cart of updateCart answers; the upstream cart becomes the payload
RamiUpdateCartResponse(p) ==
    /\ proc[p].pc \in CartPostPcs
    /\ \E outcome \in {"ok", "reject"} :
          LET l == Outcome(proc[p], outcome)
              res == IF outcome = "ok"
                     THEN createSuccessResult("rami-levy", "bool", TRUE)
                     ELSE createErrorResult("rami-levy",
                              "Failed to update Rami Levy cart")
          IN  /\ proc' = [q \in Callers |->
                    IF q = p THEN AfterUpdateCart(l, res)
                    ELSE IF outcome = "ok"
                            /\ proc[q].pc \in ItemsPcs \cup CartPostPcs
                         THEN [proc[q] EXCEPT !.stale = TRUE]
                         ELSE proc[q]]
              /\ cart' = IF outcome = "ok" THEN proc[p].payload ELSE cart
              /\ UNCHANGED <<nonAdapterVars, upstreamVars, callsLeft>>

(***************************************************************************)
(* Shufersal                                                               *)
(***************************************************************************)
\* !csrfToken || !cookie
ShufersalMissingCredentials ==
    ~shufersalCredentials.apiKey \/ ~shufersalCredentials.accessToken

ShufersalMissingResult ==
    createErrorResult("shufersal",
        "Missing Shufersal authentication credentials")

\* the adapter methods up to their first request or early return
ShufersalSearchCall(options) ==
    Issue([NewCall("shufersal", "searchProducts") EXCEPT
               !.options = options], "sh.search")

ShufersalAddCall(pid, q) ==
    LET l == [NewCall("shufersal", "addToCart") EXCEPT
                  !.productId = pid, !.quantity = q]
    IN  IF ShufersalMissingCredentials
        THEN Return(l, ShufersalMissingResult)
        ELSE Issue(l, "sh.add")

ShufersalRemoveCall(id) ==
    LET l == [NewCall("shufersal", "removeFromCart") EXCEPT
                  !.cartItemId = id]
        entryNumber == id[Len(id)]
    IN  IF ShufersalMissingCredentials
        THEN Return(l, ShufersalMissingResult)
        ELSE IF ~IsNumeric(entryNumber)
        THEN Return(l, createErrorResult("shufersal",
                        "Invalid cart item ID format"))
        ELSE Issue(l, "sh.remove")

ShufersalUpdateCall ==
    Return(NewCall("shufersal", "updateCartQuantity"),
           createErrorResult("shufersal",
               "Cart operations not implemented for Shufersal"))

ShufersalGetCartCall ==
    LET l == NewCall("shufersal", "getCartContents")
    IN  IF ShufersalMissingCredentials
        THEN Return(l, ShufersalMissingResult)
        ELSE Issue(l, "sh.cart")

\* ShufersalAdapter.searchProducts up to the GET /search/results
ShufersalSearchProducts(p) ==
    /\ CanCall(p)
    /\ \E options \in SearchOptions :
          StartCall(p, ShufersalSearchCall(options))

\* ShufersalAdapter.addToCart up to the POST /cart/add
ShufersalAddToCart(p) ==
    /\ CanCall(p)
    /\ \E pid \in ProductIds, q \in 1..MaxCartQty :
          StartCall(p, ShufersalAddCall(pid, q))

\* ShufersalAdapter.removeFromCart up to the POST /cart/update
ShufersalRemoveFromCart(p) ==
    /\ CanCall(p)
    /\ \E id \in ShufersalCartItemIds : StartCall(p, ShufersalRemoveCall(id))

\* ShufersalAdapter.updateCartQuantity
ShufersalUpdateCartQuantity(p) ==
    /\ CanCall(p)
    /\ StartCall(p, ShufersalUpdateCall)

\* ShufersalAdapter.getCartContents up to the GET of the cart entries
ShufersalGetCartContents(p) ==
    /\ CanCall(p)
    /\ StartCall(p, ShufersalGetCartCall)

\* a Shufersal request answers: the method from the response on
ShufersalResponse(p) ==
    /\ proc[p].pc \in {"sh.search", "sh.add", "sh.remove", "sh.cart"}
    /\ \E outcome \in {"ok", "bad", "reject"} :
          LET l == Outcome(proc[p], outcome)
              pc == proc[p].pc
          IN  Step(p,
                CASE outcome = "reject" ->
                        Return(l, createErrorResult("shufersal",
                            CASE pc = "sh.search" ->
                                    "Failed to search products on Shufersal"
                              [] pc = "sh.add" ->
                                    "Failed to add product to Shufersal cart"
                              [] pc = "sh.remove" ->
                                 "Failed to remove item from Shufersal cart"
                              [] pc = "sh.cart" ->
                                 "Failed to get Shufersal cart contents"))
                  [] outcome = "bad" ->
                        Return(l, createErrorResult("shufersal",
                            CASE pc = "sh.search" -> "No results found"
                              [] pc = "sh.add" ->
                                    "Invalid response from Shufersal cart API"
                              [] pc = "sh.remove" ->
                                    "Failed to remove item from cart"
                              [] pc = "sh.cart" ->
                         "Invalid response from Shufersal cart contents API"))
                  [] outcome = "ok" ->
                        Return(l,
                            CASE pc = "sh.search" ->
                                    createSuccessResult("shufersal",
                                        "search",
                                        ShufersalSearchResult(catalog,
                                                              l.options))
                              [] pc = "sh.add" ->
                                    createSuccessResult("shufersal",
                                        "message", "Successfully added")
                              [] pc = "sh.remove" ->
                                    createSuccessResult("shufersal",
                                        "bool", TRUE)
                              [] pc = "sh.cart" ->
                                    createSuccessResult("shufersal",
                                        "cart", EmptyCart)))

(***************************************************************************)
(* Part 5: ShoppingAdapterFactory and the shopping tool handlers           *)
(***************************************************************************)
Websites == {"rami-levy", "shufersal"}

\* the environment values getRamiLevyCredentials reads
RamiEnvVars == {"RAMI_LEVY_API_KEY", "ECOM_TOKEN", "COOKIE"}

\* an env by the values it holds; an absent env holds none
Envs == SUBSET RamiEnvVars

\* the WebsiteCredentials field each environment value is stored in
CredentialOf(var) ==
    CASE var = "RAMI_LEVY_API_KEY" -> "apiKey"
      [] var = "ECOM_TOKEN" -> "accessToken"
      [] var = "COOKIE" -> "refreshToken"

\* ShoppingAdapterFactory.getRamiLevyCredentials: the fields set; the empty
\* set stands for undefined
getRamiLevyCredentials(env) == { CredentialOf(var) : var \in env }

\* the constructor of RamiLevyAdapter: the message it throws, "" for none
RamiLevyConstructor(credentials) ==
    IF credentials = {}
    THEN "Rami Levy adapter requires API key, ecom token, and cookie credentials"
    ELSE IF "apiKey" \notin credentials
    THEN "Rami Levy adapter requires API key"
    ELSE IF "accessToken" \notin credentials
    THEN "Rami Levy adapter requires ecom token"
    ELSE IF "refreshToken" \notin credentials
    THEN "Rami Levy adapter requires cookie"
    ELSE ""

\* the constructor of ShufersalAdapter: it checks nothing
ShufersalConstructor(credentials) == ""

\* an adapter instance: the id tells instances apart
Adapter(id, website, credentials) ==
    [id |-> id, website |-> website, credentials |-> credentials]

NoAdapter == Adapter(0, "", {})

\* new Map()
NoAdapters == [w \in Websites |-> NoAdapter]

\* new RamiLevyAdapter(getRamiLevyCredentials(env)) / new ShufersalAdapter()
Construct(id, website, env) ==
    LET credentials == IF website = "rami-levy"
                       THEN getRamiLevyCredentials(env) ELSE {}
        thrown == IF website = "rami-levy"
                  THEN RamiLevyConstructor(credentials)
                  ELSE ShufersalConstructor(credentials)
    IN  [thrown |-> thrown, adapter |-> Adapter(id, website, credentials)]

\* getAdapter that leaves an entry for the website when construction throws
getAdapter_CacheFailed(registry, count, website, env) ==
    IF registry[website] # NoAdapter
    THEN [ok |-> TRUE, adapter |-> registry[website], adapters |-> registry,
          constructed |-> count, error |-> <<>>]
    ELSE LET made == Construct(count + 1, website, env)
         IN  [ok |-> made.thrown = "",
              adapter |-> IF made.thrown = "" THEN made.adapter
                          ELSE NoAdapter,
              adapters |-> [registry EXCEPT ![website] = made.adapter],
              constructed |-> count + 1,
              error |-> IF made.thrown = "" THEN <<>>
                        ELSE <<"Failed to initialize", website,
                               made.thrown>>]

\* getAdapter that constructs on every call
getAdapter_NoCache(registry, count, website, env) ==
    LET made == Construct(count + 1, website, env)
    IN  IF made.thrown # ""
        THEN [ok |-> FALSE, adapter |-> NoAdapter, adapters |-> registry,
              constructed |-> count,
              error |-> <<"Failed to initialize", website, made.thrown>>]
        ELSE [ok |-> TRUE, adapter |-> made.adapter,
              adapters |-> [registry EXCEPT ![website] = made.adapter],
              constructed |-> count + 1, error |-> <<>>]

\* ShoppingAdapterFactory.getAdapter on the registry and the number of
\* adapters constructed so far
getAdapter(registry, count, website, env) ==
    IF registry[website] # NoAdapter
    THEN [ok |-> TRUE, adapter |-> registry[website], adapters |-> registry,
          constructed |-> count, error |-> <<>>]
    ELSE LET made == Construct(count + 1, website, env)
         IN  IF made.thrown # ""
             THEN [ok |-> FALSE, adapter |-> NoAdapter,
                   adapters |-> registry, constructed |-> count,
                   error |-> <<"Failed to initialize", website,
                               made.thrown>>]
             ELSE [ok |-> TRUE, adapter |-> made.adapter,
                   adapters |-> [registry EXCEPT ![website] = made.adapter],
                   constructed |-> count + 1, error |-> <<>>]

\* validateWebsiteConfig that does not look for COOKIE
validateWebsiteConfig_NoCookie(website, env) ==
    LET missingVars ==
            IF website = "rami-levy"
            THEN SelectSeq(<<"RAMI_LEVY_API_KEY", "ECOM_TOKEN">>,
                           LAMBDA var : var \notin env)
            ELSE <<>>
    IN  [isValid |-> Len(missingVars) = 0, missingVars |-> missingVars]

\* ShoppingAdapterFactory.validateWebsiteConfig
validateWebsiteConfig(website, env) ==
    LET missingVars ==
            IF website = "rami-levy"
            THEN SelectSeq(<<"RAMI_LEVY_API_KEY", "ECOM_TOKEN", "COOKIE">>,
                           LAMBDA var : var \notin env)
            ELSE <<>>
    IN  [isValid |-> Len(missingVars) = 0, missingVars |-> missingVars]

\* tool arguments that pass the schemas
ToolQueries == {<<"a", "b">>, <<"<">>}
ToolCategories == {<<>>, <<"<">>}
ToolPriceRanges == {NoPriceRange, PriceRange(0, 5), PriceRange(5, 0)}
ToolProductIds == {<<"1", "0", "1">>, <<"a", "b", "c">>}
ToolVariants == {<<>>, <<"<">>}
ToolCartItemIds == {<<"r", "a", "m", "i", "-", "l", "e", "v", "y", "-", "1", "0", "1">>, <<"0">>, <<"<">>}

NoArgs ==
    [query |-> <<>>, category |-> <<>>, priceRange |-> NoPriceRange,
     productId |-> <<>>, quantity |-> 0, variant |-> <<>>,
     cartItemId |-> <<>>]

\* the product id an adapter is handed: 0 is a product of no catalog
ProductIdOf(text) == IF text = <<"1", "0", "1">> THEN 101 ELSE 0

\* the cart item id an adapter is handed
RamiCartItemIdOf(text) ==
    IF text = <<"r", "a", "m", "i", "-", "l", "e", "v", "y", "-", "1", "0", "1">> THEN CartItemId(101) ELSE CartItemId(999)

\* cartItemId.split("_")
ShufersalCartItemIdOf(text) == IF text = <<"0">> THEN <<"0">> ELSE <<"abc">>

\* the validators of a handler in the order it runs them: the first
\* failure, or the sanitized values
ValidateArgs(name, website, args) ==
    LET results ==
            CASE name = "searchProducts" ->
                    <<validateSearchQuery(args.query),
                      validateCategory(args.category),
                      validatePriceRange(args.priceRange)>>
              [] name = "addToCart" ->
                    <<validateProductId(args.productId, website),
                      validateQuantity(Number(args.quantity, 1)),
                      validateVariant(args.variant)>>
              [] name = "removeFromCart" ->
                    <<validateCartItemId(args.cartItemId)>>
              [] name = "updateCartQuantity" ->
                    <<validateCartItemId(args.cartItemId),
                      validateQuantity(Number(args.quantity, 1))>>
              [] name = "getCartContents" -> <<>>
        failed == { i \in 1..Len(results) : ~results[i].isValid }
    IN  IF failed = {} THEN [isValid |-> TRUE, error |-> ""]
        ELSE [isValid |-> FALSE,
              error |-> results[CHOOSE i \in failed :
                                    \A j \in failed : i <= j].error]

\* the adapter method a handler calls, up to its first request
AdapterCall(name, website, args) ==
    IF website = "rami-levy"
    THEN CASE name = "searchProducts" ->
                 RamiSearchCall(
                     [category |-> validateCategory(args.category).sanitized,
                      priceRange |-> args.priceRange])
           [] name = "addToCart" ->
                 RamiAddCall(ProductIdOf(args.productId), args.quantity)
           [] name = "removeFromCart" ->
                 RamiRemoveCall(RamiCartItemIdOf(args.cartItemId))
           [] name = "updateCartQuantity" ->
                 RamiUpdateCall(RamiCartItemIdOf(args.cartItemId),
                                args.quantity)
           [] name = "getCartContents" -> RamiGetCartCall
    ELSE CASE name = "searchProducts" ->
                 ShufersalSearchCall(
                     [category |-> validateCategory(args.category).sanitized,
                      priceRange |-> args.priceRange])
           [] name = "addToCart" ->
                 ShufersalAddCall(ProductIdOf(args.productId), args.quantity)
           [] name = "removeFromCart" ->
                 ShufersalRemoveCall(ShufersalCartItemIdOf(args.cartItemId))
           [] name = "updateCartQuantity" -> ShufersalUpdateCall
           [] name = "getCartContents" -> ShufersalGetCartCall

\* a tool response: isError, and the error text by its source, with
\* secured telling that it went through formatSecureError
Response(isError, source, error, secured) ==
    [isError |-> isError, source |-> source, error |-> error,
     secured |-> secured]

NoResponse == Response(FALSE, "", <<>>, FALSE)

IdleTool ==
    [phase |-> "idle", name |-> "", website |-> "", env |-> {},
     args |-> NoArgs, adapter |-> NoAdapter, response |-> NoResponse]

\* HandlerOutcome with the adapter looked up before the validators run
HandlerOutcome_LookupFirst(name, website, env, args) ==
    LET got == getAdapter(adapters, constructed, website, env)
        validation == ValidateArgs(name, website, args)
    IN  IF ~validation.isValid
        THEN [stage |-> "invalid", adapter |-> NoAdapter,
              adapters |-> got.adapters, constructed |-> got.constructed,
              response |-> Response(TRUE, "validator",
                                    <<validation.error>>, FALSE)]
        ELSE IF ~got.ok
        THEN [stage |-> "failed", adapter |-> NoAdapter,
              adapters |-> got.adapters, constructed |-> got.constructed,
              response |-> Response(TRUE, "exception", got.error, TRUE)]
        ELSE [stage |-> "called", adapter |-> got.adapter,
              adapters |-> got.adapters, constructed |-> got.constructed,
              response |-> NoResponse]

\* a handler up to the call of the adapter method: validators, then
\* getAdapter inside the try block
HandlerOutcome(name, website, env, args) ==
    LET validation == ValidateArgs(name, website, args)
    IN  IF ~validation.isValid
        THEN [stage |-> "invalid", adapter |-> NoAdapter,
              adapters |-> adapters, constructed |-> constructed,
              response |-> Response(TRUE, "validator",
                                    <<validation.error>>, FALSE)]
        ELSE LET got == getAdapter(adapters, constructed, website, env)
             IN  IF ~got.ok
                 THEN [stage |-> "failed", adapter |-> NoAdapter,
                       adapters |-> got.adapters,
                       constructed |-> got.constructed,
                       response |-> Response(TRUE, "exception", got.error,
                                             TRUE)]
                 ELSE [stage |-> "called", adapter |-> got.adapter,
                       adapters |-> got.adapters,
                       constructed |-> got.constructed,
                       response |-> NoResponse]

\* a caller invokes one tool at a time
CanInvoke(p) == CanCall(p) /\ tool[p].phase \in {"idle", "responded"}

\* a tool handler from its start to the first await or to its return
Handler(p, name, website, env, args) ==
    \E o \in {HandlerOutcome(name, website, env, args)} :
        /\ adapters' = o.adapters
        /\ constructed' = o.constructed
        /\ callsLeft' = [callsLeft EXCEPT ![p] = @ - 1]
        /\ tool' = [tool EXCEPT ![p] =
              [phase |-> IF o.stage = "called" THEN "calling"
                         ELSE "responded",
               name |-> name, website |-> website, env |-> env,
               args |-> args, adapter |-> o.adapter, response |-> o.response]]
        /\ proc' = IF o.stage = "called"
                   THEN [proc EXCEPT ![p] = AdapterCall(name, website, args)]
                   ELSE proc
        /\ UNCHANGED <<priceVars, validatorVars, cart, upstreamVars,
                       conversationVars>>

\* the searchProducts tool
ToolSearchProducts(p) ==
    /\ CanInvoke(p)
    /\ \E website \in Websites, env \in Envs, query \in ToolQueries,
          category \in ToolCategories, priceRange \in ToolPriceRanges :
           Handler(p, "searchProducts", website, env,
                   [NoArgs EXCEPT !.query = query, !.category = category,
                                  !.priceRange = priceRange])

\* the addToCart tool
ToolAddToCart(p) ==
    /\ CanInvoke(p)
    /\ \E website \in Websites, env \in Envs, productId \in ToolProductIds,
          q \in 1..MaxCartQty, variant \in ToolVariants :
           Handler(p, "addToCart", website, env,
                   [NoArgs EXCEPT !.productId = productId, !.quantity = q,
                                  !.variant = variant])

\* the removeFromCart tool
ToolRemoveFromCart(p) ==
    /\ CanInvoke(p)
    /\ \E website \in Websites, env \in Envs, cartItemId \in ToolCartItemIds :
           Handler(p, "removeFromCart", website, env,
                   [NoArgs EXCEPT !.cartItemId = cartItemId])

\* the updateCartQuantity tool
ToolUpdateCartQuantity(p) ==
    /\ CanInvoke(p)
    /\ \E website \in Websites, env \in Envs, cartItemId \in ToolCartItemIds,
          q \in 0..MaxCartQty :
           Handler(p, "updateCartQuantity", website, env,
                   [NoArgs EXCEPT !.cartItemId = cartItemId, !.quantity = q])

\* the getCartContents tool
ToolGetCartContents(p) ==
    /\ CanInvoke(p)
    /\ \E website \in Websites, env \in Envs :
           Handler(p, "getCartContents", website, env, NoArgs)

\* the adapter method has returned: the handler builds its response
ToolRespond(p) ==
    /\ tool[p].phase = "calling"
    /\ proc[p].pc = "done"
    /\ tool' = [tool EXCEPT ![p] =
          [@ EXCEPT !.phase = "responded",
                    !.response =
                        IF proc[p].result.success
                        THEN Response(FALSE, "", <<>>, FALSE)
                        ELSE Response(TRUE, "adapter",
                                      <<proc[p].result.error>>, TRUE)]]
    /\ UNCHANGED <<priceVars, validatorVars, adapterVars, adapters,
                   constructed, conversationVars>>

\* ShoppingAdapterFactory.clearCache
ClearCache ==
    /\ adapters' = NoAdapters
    /\ UNCHANGED <<priceVars, validatorVars, adapterVars, constructed, tool,
                   conversationVars>>

(***************************************************************************)
(* Part 6: the extension's ConversationManager                             *)
(* (apps/extension/src/services/ConversationManager.ts)                    *)
(***************************************************************************)
\* the limits of the storage settings, scaled down
MaxConversations == 2

MaxMessages == 2

\* operations in one run
MaxOps == 4

Hostnames == {"a.com", "b.com", "c.com"}

DEFAULT_STORAGE_SETTINGS ==
    [maxConversations |-> MaxConversations,
     maxMessagesPerConversation |-> MaxMessages]

\* nothing stored under the key yet
NoStorage ==
    [conversations |-> <<>>, settings |-> DEFAULT_STORAGE_SETTINGS,
     stored |-> FALSE]

\* a Message, identified by the time it was made
Message(t) == [id |-> t, timestamp |-> t]

\* a Record<string, Conversation> is the sequence of its values in
\* insertion order, as Object.values lists them
HasConversation(conversations, hostname) ==
    \E i \in 1..Len(conversations) : conversations[i].hostname = hostname

ConversationOf(conversations, hostname) ==
    conversations[CHOOSE i \in 1..Len(conversations) :
                      conversations[i].hostname = hostname]

\* data.conversations[hostname] = conversation
SetConversation(conversations, conversation) ==
    IF HasConversation(conversations, conversation.hostname)
    THEN [i \in 1..Len(conversations) |->
             IF conversations[i].hostname = conversation.hostname
             THEN conversation ELSE conversations[i]]
    ELSE Append(conversations, conversation)

\* delete data.conversations[hostname]
DeleteKey(conversations, hostname) ==
    SelectSeq(conversations, LAMBDA c : c.hostname # hostname)

\* Array.prototype.sort by lastUpdated, ascending and stable
RECURSIVE SortByLastUpdated(_)
SortByLastUpdated(conversations) ==
    IF conversations = <<>> THEN <<>>
    ELSE LET rest == SortByLastUpdated(
                         SubSeq(conversations, 1, Len(conversations) - 1))
             last == conversations[Len(conversations)]
             k == Cardinality({i \in 1..Len(rest) :
                                  rest[i].lastUpdated <= last.lastUpdated})
         IN  SubSeq(rest, 1, k) \o <<last>> \o SubSeq(rest, k + 1, Len(rest))

\* messages.slice(-n)
SliceLast(s, n) ==
    IF n = 0 \/ n >= Len(s) THEN s ELSE SubSeq(s, Len(s) - n + 1, Len(s))

getStorageData(stored) ==
    IF stored.stored THEN stored
    ELSE [conversations |-> <<>>, settings |-> DEFAULT_STORAGE_SETTINGS,
          stored |-> TRUE]

cleanupOldConversations(data) ==
    IF Len(data.conversations) >= data.settings.maxConversations
    THEN LET sorted == SortByLastUpdated(data.conversations)
             toRemove == Slice(sorted, Len(data.conversations)
                                   - data.settings.maxConversations + 1)
         IN  [data EXCEPT !.conversations =
                 SelectSeq(data.conversations, LAMBDA c :
                     \A i \in 1..Len(toRemove) :
                         toRemove[i].hostname # c.hostname)]
    ELSE data

\* createConversation: the conversation it returns and the data it saves
createConversation(stored, hostname, t) ==
    LET conversation == [hostname |-> hostname, messages |-> <<>>,
                         createdAt |-> t, lastUpdated |-> t]
        data == cleanupOldConversations(getStorageData(stored))
    IN  [conversation |-> conversation,
         saved |-> [data EXCEPT !.conversations =
                       SetConversation(data.conversations, conversation)]]

\* addMessage: the data of its last save.  The data it reads before
\* createConversation runs is the data it saves
addMessage(stored, hostname, message, t) ==
    LET data == getStorageData(stored)
        exists == HasConversation(data.conversations, hostname)
        conversation ==
            IF exists THEN ConversationOf(data.conversations, hostname)
            ELSE createConversation(stored, hostname, t).conversation
        pushed == Append(conversation.messages, message)
        limit == data.settings.maxMessagesPerConversation
        updated ==
            [conversation EXCEPT
                !.messages = IF Len(pushed) > limit
                             THEN SliceLast(pushed, limit) ELSE pushed,
                !.lastUpdated = t]
    IN  [data EXCEPT !.conversations =
            SetConversation(data.conversations, updated)]

\* clearConversation: the stored value afterwards
clearConversation(stored, hostname, t) ==
    LET data == getStorageData(stored)
    IN  IF HasConversation(data.conversations, hostname)
        THEN [data EXCEPT !.conversations =
                 SetConversation(data.conversations,
                     [ConversationOf(data.conversations, hostname) EXCEPT
                         !.messages = <<>>, !.lastUpdated = t])]
        ELSE stored

deleteConversation(stored, hostname) ==
    LET data == getStorageData(stored)
    IN  [data EXCEPT !.conversations =
            DeleteKey(data.conversations, hostname)]

\* one operation of the manager, run to its end
ConversationOp(saved) ==
    /\ now' = now + 1
    /\ storage' = saved
    /\ UNCHANGED <<priceVars, adapterVars, validatorVars, toolVars>>

CreateConversation(hostname) ==
    /\ now < MaxOps
    /\ ConversationOp(createConversation(storage, hostname, now + 1).saved)

AddMessage(hostname) ==
    /\ now < MaxOps
    /\ ConversationOp(addMessage(storage, hostname, Message(now + 1),
                                 now + 1))

ClearConversation(hostname) ==
    /\ now < MaxOps
    /\ ConversationOp(clearConversation(storage, hostname, now + 1))

DeleteConversation(hostname) ==
    /\ now < MaxOps
    /\ ConversationOp(deleteConversation(storage, hostname))

(***************************************************************************)
(* Specifications                                                          *)
(***************************************************************************)
NoPriceInfo ==
    [unitPrice |-> [num |-> 0, den |-> 1], totalPrice |-> 0,
     saleInfo |-> NoSaleInfo]

PriceIdle ==
    /\ product = [price |-> 0, sale |-> <<>>]
    /\ quantity = 0
    /\ priceInfo = NoPriceInfo
    /\ priceDone = FALSE

\* the search response outside the search specification: two plain items
DefaultCatalog ==
    <<PlainItem, [PlainItem EXCEPT !.id = 102, !.price = Number(4, 1)]>>

AdaptersIdle ==
    /\ cart = NoItems
    /\ listed = ProductIds
    /\ availableIn = ProductIds
    /\ shufersalCredentials = [apiKey |-> TRUE, accessToken |-> TRUE]
    /\ catalog = DefaultCatalog
    /\ callsLeft = [p \in Callers |-> 0]
    /\ proc = [p \in Callers |-> IdleProc]

NoInput == [fn |-> "", value |-> <<>>]

NoOutput == [done |-> FALSE, value |-> <<>>]

ValidatorIdle ==
    /\ input = NoInput
    /\ output = NoOutput

ConversationsIdle ==
    /\ storage = NoStorage
    /\ now = 0

ToolsIdle ==
    /\ adapters = NoAdapters
    /\ constructed = 0
    /\ tool = [p \in Callers |-> IdleTool]

\* the calculator on every bounded input
InitPrice ==
    /\ ConversationsIdle
    /\ product \in [price : RegularPrices, sale : SaleLists]
    /\ quantity \in 0..MaxQty
    /\ priceInfo = NoPriceInfo
    /\ priceDone = FALSE
    /\ AdaptersIdle
    /\ ValidatorIdle
    /\ ToolsIdle

CalculateBestPrice ==
    /\ ~priceDone
    /\ priceInfo' = calculateBestPrice(product, quantity)
    /\ priceDone' = TRUE
    /\ UNCHANGED <<product, quantity, adapterVars, validatorVars, toolVars,
                   conversationVars>>

NextPrice == CalculateBestPrice

SpecPrice == InitPrice /\ [][NextPrice]_vars

\* one caller making adapter calls one after the other, any upstream data;
\* a single missing Shufersal auth value is tried on one upstream state
Init ==
    /\ ConversationsIdle
    /\ PriceIdle
    /\ cart \in CartMaps
    /\ listed \in SUBSET ProductIds
    /\ availableIn \in SUBSET listed
    /\ shufersalCredentials \in [apiKey : BOOLEAN, accessToken : BOOLEAN]
    /\ shufersalCredentials.apiKey # shufersalCredentials.accessToken
           => (cart = NoItems /\ listed = ProductIds
                              /\ availableIn = ProductIds)
    /\ catalog = DefaultCatalog
    /\ callsLeft = [p \in Callers |-> IF p = 1 THEN MaxCalls ELSE 0]
    /\ proc = [p \in Callers |-> IdleProc]
    /\ ValidatorIdle
    /\ ToolsIdle

Next ==
    \E p \in Callers :
        \/ RamiSearchProducts(p)
        \/ RamiAddToCart(p)
        \/ RamiGetCartContents(p)
        \/ RamiRemoveFromCart(p)
        \/ RamiUpdateCartQuantity(p)
        \/ RamiSearchResponse(p)
        \/ RamiAddResponse(p)
        \/ RamiUserResponse(p)
        \/ RamiItemsResponse(p)
        \/ RamiUpdateCartResponse(p)
        \/ ShufersalSearchProducts(p)
        \/ ShufersalAddToCart(p)
        \/ ShufersalRemoveFromCart(p)
        \/ ShufersalUpdateCartQuantity(p)
        \/ ShufersalGetCartContents(p)
        \/ ShufersalResponse(p)

Spec == Init /\ [][Next]_vars

\* two callers, one Rami Levy cart mutation each, on the same cart
InitRace ==
    /\ ConversationsIdle
    /\ PriceIdle
    /\ cart \in CartMaps
    /\ listed = ProductIds
    /\ availableIn = ProductIds
    /\ shufersalCredentials = [apiKey |-> TRUE, accessToken |-> TRUE]
    /\ catalog = DefaultCatalog
    /\ callsLeft = [p \in Callers |-> 1]
    /\ proc = [p \in Callers |-> IdleProc]
    /\ ValidatorIdle
    /\ ToolsIdle

NextRace ==
    \E p \in Callers :
        \/ RamiRemoveFromCart(p)
        \/ RamiUpdateCartQuantity(p)
        \/ RamiUserResponse(p)
        \/ RamiItemsResponse(p)
        \/ RamiUpdateCartResponse(p)

SpecRace == InitRace /\ [][NextRace]_vars

\* one search on either website, any upstream search response
InitSearch ==
    /\ ConversationsIdle
    /\ PriceIdle
    /\ ValidatorIdle
    /\ ToolsIdle
    /\ cart = NoItems
    /\ listed = ProductIds
    /\ availableIn = ProductIds
    /\ shufersalCredentials = [apiKey |-> TRUE, accessToken |-> TRUE]
    /\ catalog \in Catalogs
    /\ callsLeft = [p \in Callers |-> IF p = 1 THEN 1 ELSE 0]
    /\ proc = [p \in Callers |-> IdleProc]

NextSearch ==
    \E p \in Callers :
        \/ RamiSearchProducts(p)
        \/ RamiSearchResponse(p)
        \/ ShufersalSearchProducts(p)
        \/ ShufersalResponse(p)

SpecSearch == InitSearch /\ [][NextSearch]_vars

\* one caller making two tool calls one after the other; the cache may
\* be cleared at any time
InitTool ==
    /\ ConversationsIdle
    /\ PriceIdle
    /\ ValidatorIdle
    /\ cart = [pid \in {101} |-> 1]
    /\ listed = ProductIds
    /\ availableIn = ProductIds
    /\ shufersalCredentials = [apiKey |-> TRUE, accessToken |-> TRUE]
    /\ catalog = DefaultCatalog
    /\ callsLeft = [p \in Callers |-> IF p = 1 THEN 2 ELSE 0]
    /\ proc = [p \in Callers |-> IdleProc]
    /\ adapters = NoAdapters
    /\ constructed = 0
    /\ tool = [p \in Callers |-> IdleTool]

NextTool ==
    \/ ClearCache
    \/ \E p \in Callers :
          \/ ToolSearchProducts(p)
          \/ ToolAddToCart(p)
          \/ ToolRemoveFromCart(p)
          \/ ToolUpdateCartQuantity(p)
          \/ ToolGetCartContents(p)
          \/ ToolRespond(p)
          \/ RamiSearchResponse(p)
          \/ RamiAddResponse(p)
          \/ RamiUserResponse(p)
          \/ RamiItemsResponse(p)
          \/ RamiUpdateCartResponse(p)
          \/ ShufersalResponse(p)

SpecTool == InitTool /\ [][NextTool]_vars

\* the validators and the redaction on every bounded input
InitValidate ==
    /\ ConversationsIdle
    /\ PriceIdle
    /\ AdaptersIdle
    /\ input \in [fn : {"validateSearchQuery"}, value : QueryInputs]
                 \cup [fn : {"validateQuantity"}, value : QuantityInputs]
                 \cup [fn : {"formatSecureError"}, value : ErrorInputs]
                 \cup [fn : {"validateWebsiteConfig"},
                       value : [website : Websites, env : Envs]]
    /\ output = NoOutput
    /\ ToolsIdle

Validated(value) ==
    /\ output' = [done |-> TRUE, value |-> value]
    /\ UNCHANGED <<input, priceVars, adapterVars, toolVars,
                   conversationVars>>

ValidateSearchQuery ==
    /\ ~output.done
    /\ input.fn = "validateSearchQuery"
    /\ Validated(validateSearchQuery(input.value))

ValidateQuantity ==
    /\ ~output.done
    /\ input.fn = "validateQuantity"
    /\ Validated(validateQuantity(input.value))

FormatSecureError ==
    /\ ~output.done
    /\ input.fn = "formatSecureError"
    /\ Validated(formatSecureError(input.value))

ValidateWebsiteConfig ==
    /\ ~output.done
    /\ input.fn = "validateWebsiteConfig"
    /\ Validated(validateWebsiteConfig(input.value.website, input.value.env))

NextValidate ==
    \/ ValidateSearchQuery
    \/ ValidateQuantity
    \/ FormatSecureError
    \/ ValidateWebsiteConfig

SpecValidate == InitValidate /\ [][NextValidate]_vars


\* the conversation manager, its operations run one at a time
InitConversation ==
    /\ PriceIdle
    /\ AdaptersIdle
    /\ ValidatorIdle
    /\ ToolsIdle
    /\ storage = NoStorage
    /\ now = 0

NextConversation ==
    \E hostname \in Hostnames :
        \/ CreateConversation(hostname)
        \/ AddMessage(hostname)
        \/ ClearConversation(hostname)
        \/ DeleteConversation(hostname)

SpecConversation == InitConversation /\ [][NextConversation]_vars

(***************************************************************************)
(* Claims about calculateBestPrice (specification SpecPrice)               *)
(***************************************************************************)
\* the tier conditions and totals as the claims word them
ClaimApplicable(t, q) ==
    t.active = 1 /\ t.cmt > 0 /\ t.scm > 0 /\ q >= t.cmt

ClaimCapped(t) == t.max_in_doc > 0

ClaimUncappedTotal(t, r, q) == (q \div t.cmt) * t.scm + (q % t.cmt) * r

ClaimCappedTotal(t, r, q) ==
    LET d == IF q < t.max_in_doc THEN q ELSE t.max_in_doc
    IN  (d \div t.cmt) * t.scm + (d % t.cmt) * r + (q - d) * r

ClaimTierTotal(t, r, q) ==
    IF ClaimCapped(t) THEN ClaimCappedTotal(t, r, q)
    ELSE ClaimUncappedTotal(t, r, q)

ClaimTotals(p, q) ==
    {p.price * q} \cup
    { ClaimTierTotal(p.sale[i], p.price, q) :
        i \in { j \in 1..Len(p.sale) : ClaimApplicable(p.sale[j], q) } }

\* C1: for quantity >= 1 the returned totalPrice is the minimum of the
\* regular total and the totals of all applicable tiers; no applicable tier
\* gives a lower total than the one returned.
C1_TotalIsMinimum ==
    (priceDone /\ quantity >= 1) =>
        /\ priceInfo.totalPrice \in ClaimTotals(product, quantity)
        /\ \A x \in ClaimTotals(product, quantity) : priceInfo.totalPrice <= x

\* two applicable tiers with different totals, the cheaper one below regular
C1_Witness ==
    /\ priceDone
    /\ quantity >= 1
    /\ Cardinality(ClaimTotals(product, quantity)) >= 3
    /\ priceInfo.totalPrice < product.price * quantity

\* C2: a single active uncapped tier "t for p" with q >= t and a tier total
\* below r*q gives totalPrice = floor(q/t)*p + (q mod t)*r,
\* unitPrice = totalPrice/q and a sale annotation; with r = 6 and
\* "2 for 10": q = 2 gives 10, q = 3 gives 16, q = 4 gives 20.
C2_SingleUncappedTier ==
    (/\ priceDone
     /\ Len(product.sale) = 1
     /\ ClaimApplicable(product.sale[1], quantity)
     /\ ~ClaimCapped(product.sale[1])
     /\ ClaimUncappedTotal(product.sale[1], product.price, quantity)
            < product.price * quantity)
    =>
    /\ priceInfo.totalPrice =
           ClaimUncappedTotal(product.sale[1], product.price, quantity)
    /\ priceInfo.unitPrice.num * quantity
           = priceInfo.totalPrice * priceInfo.unitPrice.den
    /\ priceInfo.saleInfo.kind = "sale"
    /\ (product.price = 6 /\ product.sale[1].cmt = 2
            /\ product.sale[1].scm = 10) =>
           /\ quantity = 2 => priceInfo.totalPrice = 10
           /\ quantity = 3 => priceInfo.totalPrice = 16
           /\ quantity = 4 => priceInfo.totalPrice = 20

\* three units against "2 for 10" at regular price 6: one leftover unit
C2_Witness ==
    /\ priceDone
    /\ product = [price |-> 6, sale |-> <<Tier(1, 2, 10, 0, 0)>>]
    /\ quantity = 3
    /\ priceInfo.totalPrice = 16
    /\ priceInfo.saleInfo.kind = "sale"

\* C3: a single active tier "t for p" capped at m > 0 discounted units with
\* q >= t has tier total floor(d/t)*p + (d mod t)*r + (q - d)*r, d = min(q, m);
\* the result charges it when it is below r*q and r*q otherwise; with r = 6
\* and "3 for 15, max 6": q = 6 gives 30, q = 9 gives 48.
C3_SingleCappedTier ==
    (/\ priceDone
     /\ Len(product.sale) = 1
     /\ ClaimApplicable(product.sale[1], quantity)
     /\ ClaimCapped(product.sale[1]))
    =>
    LET tierTotal ==
            ClaimCappedTotal(product.sale[1], product.price, quantity)
        regular == product.price * quantity
    IN  /\ SaleTotal(product.sale[1], product.price, quantity) = tierTotal
        /\ priceInfo.totalPrice =
               (IF tierTotal < regular THEN tierTotal ELSE regular)
        /\ (priceInfo.saleInfo.kind = "sale") <=> (tierTotal < regular)
        /\ (product.price = 6 /\ product.sale[1].cmt = 3
                /\ product.sale[1].scm = 15
                /\ product.sale[1].max_in_doc = 6) =>
               /\ quantity = 6 => priceInfo.totalPrice = 30
               /\ quantity = 9 => priceInfo.totalPrice = 48

\* nine units against "3 for 15, max 6" at regular price 6: three units
\* beyond the cap
C3_Witness ==
    /\ priceDone
    /\ product = [price |-> 6, sale |-> <<Tier(1, 3, 15, 0, 6)>>]
    /\ quantity = 9
    /\ priceInfo.totalPrice = 48

\* the cases in which no discount is applied, as C4 lists them
ClaimNoDiscount(p, q) ==
    \/ q = 0
    \/ Len(p.sale) = 0
    \/ \A i \in 1..Len(p.sale) :
          ClaimApplicable(p.sale[i], q) =>
              ~(ClaimTierTotal(p.sale[i], p.price, q) < p.price * q)

\* C4: when no discount is applied the result is unitPrice = r and
\* totalPrice = r*q exactly, also when an "Add N more" annotation is attached.
C4_NoDiscountKeepsRegular ==
    (priceDone /\ (ClaimNoDiscount(product, quantity)
                     \/ priceInfo.saleInfo.kind = "potential"))
    =>
    /\ priceInfo.saleInfo.kind # "sale"
    /\ priceInfo.unitPrice = [num |-> product.price, den |-> 1]
    /\ priceInfo.totalPrice = product.price * quantity

\* an "Add N more" annotation on a product with a positive price
C4_Witness ==
    /\ priceDone
    /\ priceInfo.saleInfo.kind = "potential"
    /\ product.price > 0
    /\ quantity >= 1

\* the potential tiers as C5 words them
ClaimEffectiveThreshold(t) ==
    IF ClaimCapped(t) /\ t.max_in_doc < t.cmt THEN t.max_in_doc ELSE t.cmt

ClaimPotential(t, q) ==
    t.active = 1 /\ t.cmt > 0 /\ t.scm > 0 /\ q < ClaimEffectiveThreshold(t)

ClaimPotentials(p, q) ==
    { i \in 1..Len(p.sale) : ClaimPotential(p.sale[i], q) }

\* C5: when no applicable tier wins and some active valid tier has an
\* effective threshold above the quantity, the result carries an annotation
\* with the number of units missing for the potential tier of lowest
\* bundlePrice/thresholdQty.
C5_PotentialAnnotated ==
    (/\ priceDone
     /\ quantity >= 1
     /\ ClaimNoDiscount(product, quantity)
     /\ ClaimPotentials(product, quantity) # {})
    =>
    /\ priceInfo.saleInfo.kind = "potential"
    /\ \E i \in ClaimPotentials(product, quantity) :
          /\ \A j \in ClaimPotentials(product, quantity) :
                product.sale[i].scm * product.sale[j].cmt
                    <= product.sale[j].scm * product.sale[i].cmt
          /\ priceInfo.saleInfo.cmt = product.sale[i].cmt
          /\ priceInfo.saleInfo.scm = product.sale[i].scm
          /\ priceInfo.saleInfo.amount =
                 ClaimEffectiveThreshold(product.sale[i]) - quantity

\* the sale list with the club flag of its i-th tier flipped
ClaimFlipClub(sale, i) == [sale EXCEPT ![i].is_club = 1 - @]

\* C19: club-only tiers are annotated, not gated: flipping the club flag of
\* any tier changes neither unitPrice nor totalPrice nor the tier the
\* annotation names; only the club note of the annotation may differ
C19_ClubFlagOnlyAnnotates ==
    priceDone =>
        \A i \in 1..Len(product.sale) :
            LET flipped == calculateBestPrice(
                    [product EXCEPT !.sale = ClaimFlipClub(product.sale, i)],
                    quantity)
            IN  /\ flipped.unitPrice = priceInfo.unitPrice
                /\ flipped.totalPrice = priceInfo.totalPrice
                /\ [flipped.saleInfo EXCEPT
                        !.clubNote = priceInfo.saleInfo.clubNote]
                      = priceInfo.saleInfo

\* a club-only tier has won and lowered the total
C19_Witness ==
    /\ priceDone
    /\ priceInfo.saleInfo.kind = "sale"
    /\ priceInfo.saleInfo.clubNote
    /\ priceInfo.totalPrice < product.price * quantity

(***************************************************************************)
(* Claims about the adapters (specifications Spec and SpecRace)            *)
(***************************************************************************)
\* a Rami Levy getCartContents call that returned a cart
ReturnedCart(p) ==
    /\ proc[p].pc = "done"
    /\ proc[p].website = "rami-levy"
    /\ proc[p].method = "getCartContents"
    /\ proc[p].result.success

RECURSIVE ClaimSumQuantity(_)
ClaimSumQuantity(items) ==
    IF Len(items) = 0 THEN 0
    ELSE items[Len(items)].quantity
            + ClaimSumQuantity(SubSeq(items, 1, Len(items) - 1))

RECURSIVE ClaimSumAvailablePrice(_)
ClaimSumAvailablePrice(items) ==
    IF Len(items) = 0 THEN 0
    ELSE (IF IncludesUnavailable(items[Len(items)].id) THEN 0
          ELSE items[Len(items)].totalPrice)
            + ClaimSumAvailablePrice(SubSeq(items, 1, Len(items) - 1))

\* C6: in every cart returned by Rami Levy getCartContents, totalItems is
\* the sum of the quantities of all returned items, totalPrice is the sum of
\* totalPrice over the available items only, and every item flagged
\* unavailable has totalPrice 0.
C6_CartAccounting ==
    \A p \in Callers :
        ReturnedCart(p) =>
            LET c == proc[p].result.data
            IN  /\ c.totalItems = ClaimSumQuantity(c.items)
                /\ c.totalPrice = ClaimSumAvailablePrice(c.items)
                /\ \A i \in 1..Len(c.items) :
                      IncludesUnavailable(c.items[i].id) =>
                          c.items[i].totalPrice = 0

\* a returned cart with a priced available line and an unavailable line
\* whose quoted price is positive
C6_Witness ==
    \E p \in Callers :
        /\ ReturnedCart(p)
        /\ \E i, j \in 1..Len(proc[p].result.data.items) :
              LET items == proc[p].result.data.items
              IN  /\ ~IncludesUnavailable(items[i].id)
                  /\ items[i].totalPrice > 0
                  /\ IncludesUnavailable(items[j].id)
                  /\ items[j].quantity > 0
                  /\ items[j].unitPrice.num > 0

\* C7: for every product id of the upstream cart, a successful
\* getCartContents returns exactly one CartItem with that productId and the
\* upstream quantity, with the plain id when the store is in available_in
\* and the "-unavailable" id otherwise; no cart line is dropped.
C7_EveryCartLineReturned ==
    \A p \in Callers :
        ReturnedCart(p) =>
            LET items == proc[p].result.data.items
            IN  \A pid \in DOMAIN proc[p].snap :
                   /\ Cardinality({ i \in 1..Len(items) :
                                      items[i].productId = pid }) = 1
                   /\ \A i \in 1..Len(items) :
                         items[i].productId = pid =>
                            /\ items[i].quantity = proc[p].snap[pid]
                            /\ items[i].id =
                                 IF pid \in availableIn
                                 THEN CartItemId(pid)
                                 ELSE UnavailableCartItemId(pid)

\* some transport request of the call was rejected
SomeRejected(l) == \E i \in 1..Len(l.log) : l.log[i].outcome = "reject"

\* C8: a call of an adapter method in which a transport request rejects
\* returns a result with success = false, an error string and the website
\* key of its adapter, at whichever request the rejection occurs.
C8_RejectionGivesErrorResult ==
    \A p \in Callers :
        SomeRejected(proc[p]) =>
            /\ proc[p].pc = "done"
            /\ proc[p].result.success = FALSE
            /\ proc[p].result.kind = "error"
            /\ proc[p].result.error # ""
            /\ proc[p].result.website = proc[p].website
            /\ proc[p].website \in {"rami-levy", "shufersal"}

\* updateCartQuantity whose fifth request, the read after the write, rejects
C8_Witness ==
    \E p \in Callers :
        /\ proc[p].pc = "done"
        /\ proc[p].method = "updateCartQuantity"
        /\ Len(proc[p].log) = 5
        /\ proc[p].log[5].outcome = "reject"
        /\ ~proc[p].result.success

\* the step in which the full-cart write of caller q is applied upstream
WriteApplied(q) ==
    /\ proc[q].pc \in CartPostPcs
    /\ proc'[q].log[Len(proc[q].log)].outcome = "ok"

\* C9: removeFromCart and updateCartQuantity write the whole cart computed
\* from an earlier read: when another caller wrote after that read, the
\* write still installs, for every line but its own, the quantities it read,
\* so the other caller's change is lost.
C9_LastWriteWins ==
    [][\A q \in Callers :
          (WriteApplied(q) /\ proc[q].stale) =>
              \A x \in ProductIds :
                  CartItemId(x) # proc[q].cartItemId =>
                      IF x \in DOMAIN proc[q].snap /\ x \in availableIn
                      THEN x \in DOMAIN cart' /\ cart'[x] = proc[q].snap[x]
                      ELSE x \notin DOMAIN cart']_vars

\* both callers got success: caller 1 removed product 101, caller 2 removed
\* product 102 from a cart it read before that write, and product 101 is in
\* the cart again
C9_Witness ==
    /\ proc[1].pc = "done" /\ proc[2].pc = "done"
    /\ proc[1].method = "removeFromCart"
    /\ proc[1].cartItemId = CartItemId(101)
    /\ proc[1].result.success
    /\ proc[2].method = "removeFromCart"
    /\ proc[2].cartItemId = CartItemId(102)
    /\ proc[2].result.success
    /\ proc[2].stale
    /\ DOMAIN proc[2].snap = {101, 102}
    /\ DOMAIN cart = {101}

\* C10: within one call each request is issued at most once, a rejected
\* request is the last request of the call, and the call then returns a
\* failure.
C10_NoRetry ==
    \A p \in Callers :
        LET log == proc[p].log
        IN  /\ \A i, j \in 1..Len(log) : log[i].req = log[j].req => i = j
            /\ \A i \in 1..Len(log) :
                  log[i].outcome = "reject" =>
                      /\ i = Len(log)
                      /\ proc[p].pc = "done"
                      /\ ~proc[p].result.success

\* updateCartQuantity whose write, its third request, was rejected
C10_Witness ==
    \E p \in Callers :
        /\ proc[p].pc = "done"
        /\ proc[p].method = "updateCartQuantity"
        /\ Len(proc[p].log) = 3
        /\ proc[p].log[3].req = "up.post"
        /\ proc[p].log[3].outcome = "reject"

(***************************************************************************)
(* Claims about the validators (specification SpecValidate)                *)
(***************************************************************************)
\* validateSearchQuery has returned
QueryValidated ==
    output.done /\ input.fn = "validateSearchQuery"

\* C14: sanitizing an already sanitized search query changes nothing: when
\* validateSearchQuery accepts a query, it accepts the sanitized query too
\* and returns it unchanged
C14_SanitizeIdempotent ==
    (QueryValidated /\ output.value.isValid) =>
        LET again == validateSearchQuery(output.value.sanitized)
        IN  /\ again.isValid
            /\ again.sanitized = output.value.sanitized

\* validateQuantity has returned
QuantityValidated ==
    output.done /\ input.fn = "validateQuantity"

\* the value is an integer q with min <= q <= 100
ClaimWholeBetween(v, min) ==
    /\ v.type = "number" /\ ~v.nan
    /\ \E q \in min..100 : v.num = q * v.den

\* C15: validateQuantity accepts exactly the integers from 0 to 100, so it
\* rejects -1, 101 and 2.5 and accepts 0 and 100; the addToCart schema
\* accepts exactly the integers from 1 to 100 and the updateCartQuantity
\* schema accepts 0 as well
C15_QuantityAccepted ==
    /\ QuantityValidated =>
          /\ output.value.isValid <=> ClaimWholeBetween(input.value, 0)
          /\ AddToCartSchemaQuantity(input.value)
                <=> ClaimWholeBetween(input.value, 1)
          /\ UpdateCartQuantitySchemaQuantity(input.value)
                <=> ClaimWholeBetween(input.value, 0)
          /\ input.value \in {Number(-1, 1), Number(101, 1), Number(5, 2)}
                => ~output.value.isValid
          /\ input.value \in {Number(0, 1), Number(100, 1)}
                => output.value.isValid
    /\ UpdateCartQuantitySchemaQuantity(Number(0, 1))
    /\ ~AddToCartSchemaQuantity(Number(0, 1))

\* 100 has been validated and accepted
C15_Witness ==
    /\ QuantityValidated
    /\ input.value = Number(100, 1)
    /\ output.value.isValid

\* the word w occurs in s, letter case ignored
ClaimOccursIn(s, w) ==
    \E i \in 1..(Len(s) - Len(w) + 1) :
        \A k \in 1..Len(w) : ToLower(s[i + k - 1]) = w[k]

\* the words the claim lists, "api key" in its spellings
ClaimSecretWords ==
    { <<"t", "o", "k", "e", "n">>,
      <<"p", "a", "s", "s", "w", "o", "r", "d">>,
      <<"s", "e", "c", "r", "e", "t">>,
      <<"c", "r", "e", "d", "e", "n", "t", "i", "a", "l">>,
      <<"a", "p", "i", "k", "e", "y">>,
      <<"a", "p", "i", "_", "k", "e", "y">>,
      <<"a", "p", "i", "-", "k", "e", "y">>,
      <<"a", "p", "i", " ", "k", "e", "y">> }

\* C16: whatever the error text, the output of formatSecureError has at
\* most 500 characters and holds none of "token", "password", "secret",
\* "credential" or a spelling of "api key", in any letter case
C16_ErrorTextRedacted ==
    (output.done /\ input.fn = "formatSecureError") =>
        /\ Len(output.value) <= 500
        /\ \A w \in ClaimSecretWords : ~ClaimOccursIn(output.value, w)

(***************************************************************************)
(* Claims about searchProducts (specification SpecSearch)                  *)
(***************************************************************************)
\* caller p holds the successful result of a searchProducts call
SearchSucceeded(p) ==
    /\ proc[p].pc = "done"
    /\ proc[p].method = "searchProducts"
    /\ proc[p].result.success

\* the products of that result
FoundProducts(p) ==
    LET products == proc[p].result.data.products
    IN  { products[i] : i \in 1..Len(products) }

ClaimHttpOrAbsent(url) == url = NoUrl \/ url.scheme \in {"http", "https"}

ClaimSanitized(found) ==
    /\ \A i \in 1..Len(found.title) : found.title[i] \notin {"<", ">"}
    /\ Len(found.title) <= 200
    /\ Len(found.description) <= 1000
    /\ Len(found.category) <= 100
    /\ Len(found.brand) <= 100
    /\ found.rating.present =>
          found.rating.value >= 0 /\ found.rating.value <= 5
    /\ found.reviewCount.present => found.reviewCount.value >= 0
    /\ ClaimHttpOrAbsent(found.url)
    /\ ClaimHttpOrAbsent(found.imageUrl)

\* C17: every Product of a successful searchProducts result of either
\* adapter is sanitized (title without angle brackets and of at most 200
\* characters, description at most 1000, category and brand at most 100,
\* rating within 0..5, reviewCount not negative, links http(s) or absent),
\* totalCount is the number of products returned, and two upstream items
\* searched without a price range give totalCount 2
C17_ProductsSanitized ==
    \A p \in Callers :
        SearchSucceeded(p) =>
            /\ \A found \in FoundProducts(p) : ClaimSanitized(found)
            /\ proc[p].result.data.totalCount
                  = Len(proc[p].result.data.products)
            /\ (Len(catalog) = 2 /\ ~proc[p].options.priceRange.present)
                  => proc[p].result.data.totalCount = 2

\* two upstream items, one with markup in a name longer than every cut,
\* have been searched and returned
C17_Witness ==
    \E p \in Callers :
        /\ SearchSucceeded(p)
        /\ Len(catalog) = 2
        /\ \E i \in 1..2 :
              /\ Len(catalog[i].name) > 1000
              /\ \E k \in 1..200 : catalog[i].name[k] = "<"
        /\ proc[p].result.data.totalCount = 2
        /\ \E found \in FoundProducts(p) : Len(found.title) = 200

\* C18: every Product of a successful searchProducts result of either
\* adapter has a price that is not negative, whatever the upstream price
C18_PriceNonNegative ==
    \A p \in Callers :
        SearchSucceeded(p) =>
            \A found \in FoundProducts(p) : found.price >= 0

\* C20: on either website, every found of a successful searchProducts
\* call made with a priceRange has its price within that range
C20_PriceRangeRespected ==
    \A p \in Callers :
        (SearchSucceeded(p) /\ proc[p].options.priceRange.present) =>
            \A found \in FoundProducts(p) :
                /\ proc[p].options.priceRange.min <= found.price
                /\ found.price <= proc[p].options.priceRange.max


(***************************************************************************)
(* Claims about the tool handlers and the factory                          *)
(***************************************************************************)
\* the tool call fails one of the validators of its handler
ArgsRejected(call) ==
    ~ValidateArgs(call.name, call.website, call.args).isValid

\* caller p's handler ran in this step and left the tool call as given
ToolInvoked(p, call) ==
    /\ tool[p].phase # "calling"
    /\ call # tool[p]
    /\ call = tool'[p]

\* C11: in every shopping tool handler the validators run before the
\* adapter is looked up: a call whose arguments fail a validator returns an
\* error response in the same step, and that step constructs no adapter,
\* leaves the factory's registry alone and starts no adapter method and no
\* request
C11_ValidatorsBeforeAdapter ==
    [][\A p \in Callers : \A call \in {tool'[p]} :
          (ToolInvoked(p, call) /\ ArgsRejected(call))
              => /\ call.phase = "responded"
                 /\ call.response.isError
                 /\ call.response.source = "validator"
                 /\ call.adapter = NoAdapter
                 /\ adapters' = adapters
                 /\ constructed' = constructed
                 /\ proc' = proc
                 /\ cart' = cart]_vars

\* a rejected call on a website with an empty registry, and one after an
\* adapter of the same website was cached
C11_Witness ==
    /\ tool[1].phase = "responded"
    /\ tool[1].name = "addToCart"
    /\ tool[1].website = "rami-levy"
    /\ ArgsRejected(tool[1])
    /\ adapters["rami-levy"] # NoAdapter
    /\ callsLeft[1] = 0


\* the credentials the factory hands the constructor of a website's adapter
ClaimCredentials(website, env) ==
    IF website = "rami-levy" THEN getRamiLevyCredentials(env) ELSE {}

\* C13: while the cache is not cleared, getAdapter returns for a website
\* the instance it cached, whatever env the call carries, and the registry
\* keeps it; with no instance cached (at the start or after clearCache) a
\* successful getAdapter returns an instance never returned before, built
\* from the env of that call, and caches it; a cached instance leaves the
\* registry only by clearCache
C13_CachedUntilCleared ==
    [][ /\ \A p \in Callers : \A call \in {tool'[p]} :
             (ToolInvoked(p, call) /\ ~ArgsRejected(call))
                 => IF adapters[call.website] # NoAdapter
                    THEN /\ call.phase = "calling"
                         /\ call.adapter = adapters[call.website]
                         /\ adapters' = adapters
                         /\ constructed' = constructed
                    ELSE IF call.phase = "calling"
                    THEN /\ call.adapter.id = constructed + 1
                         /\ constructed' = constructed + 1
                         /\ call.adapter.website = call.website
                         /\ call.adapter.credentials =
                                ClaimCredentials(call.website, call.env)
                         /\ adapters' = [adapters EXCEPT
                                            ![call.website] = call.adapter]
                    ELSE /\ call.response.isError
                         /\ adapters' = adapters
                         /\ constructed' = constructed
        /\ \A w \in Websites :
               (adapters[w] # NoAdapter /\ adapters'[w] # adapters[w])
                   => adapters' = NoAdapters
        /\ \A w \in Websites : adapters[w].id <= constructed]_vars

\* a second call for rami-levy with an empty env gets the instance the
\* first call constructed
C13_Witness ==
    /\ tool[1].phase = "calling"
    /\ tool[1].website = "rami-levy"
    /\ tool[1].env = {}
    /\ tool[1].adapter.id = 1
    /\ tool[1].adapter = adapters["rami-levy"]
    /\ callsLeft[1] = 0


\* the credential fields the authenticated endpoints of a website's adapter
\* read: the three the Rami Levy clients send, and the CSRF token (apiKey)
\* and cookie (accessToken) of the Shufersal cart requests
ClaimRequiredCredentials(website) ==
    IF website = "rami-levy"
    THEN {"apiKey", "accessToken", "refreshToken"}
    ELSE {"apiKey", "accessToken"}

\* C12: every adapter validates its required credentials at construction:
\* getAdapter on an empty cache with an env lacking a required credential
\* value fails, so every adapter the factory holds was constructed with
\* all the credentials its authenticated endpoints need
C12_CredentialsCheckedAtConstruction ==
    \A w \in Websites :
        adapters[w] # NoAdapter
            => ClaimRequiredCredentials(w) \subseteq adapters[w].credentials


(***************************************************************************)
(* Claims about the Rami Levy cart writes (specification Spec: one caller, *)
(* so nothing else modifies the upstream cart during a call)               *)
(***************************************************************************)
\* a finished Rami Levy call of the method
ClaimFinished(p, method) ==
    /\ proc[p].pc = "done"
    /\ proc[p].website = "rami-levy"
    /\ proc[p].method = method

\* the product a cart item id names
ClaimProductOf(cartItemId) == cartItemId[2]

\* the ids of the lines getCartContents lists for an upstream cart
ClaimLineIds(upstream) ==
    { IF pid \in availableIn THEN CartItemId(pid)
      ELSE UnavailableCartItemId(pid) : pid \in DOMAIN upstream \cap listed }

\* the call sent a full-cart write
ClaimWrote(l) == \E i \in 1..Len(l.log) : l.log[i].req \in CartPostPcs

\* every request of the call was answered normally
ClaimAllOk(l) == \A i \in 1..Len(l.log) : l.log[i].outcome = "ok"

\* caller p's call returns in this step, leaving its record as l
ClaimReturns(p, l) ==
    /\ proc[p].pc # "done"
    /\ l = proc'[p]
    /\ l.pc = "done"
    /\ l.website = "rami-levy"

\* C21: a successful Rami Levy updateCartQuantity(cartItemId, 0) leaves the
\* upstream cart without the product of that item and returns a CartItem
\* with that id, quantity 0 and totalPrice 0; a call for a cartItemId that
\* is not a line of the cart sends no write and, when its requests are
\* answered, returns "Cart item not found"
C21_ZeroRemovesItem ==
    [][\A p \in Callers : \A l \in {proc'[p]} :
          l.method = "updateCartQuantity" =>
              /\ (ClaimReturns(p, l) /\ l.quantity = 0 /\ l.result.success)
                    => /\ ClaimProductOf(l.cartItemId) \notin DOMAIN cart'
                       /\ l.result.data.id = l.cartItemId
                       /\ l.result.data.quantity = 0
                       /\ l.result.data.totalPrice = 0
              /\ (l.pc \in CartPostPcs /\ proc[p].pc \notin CartPostPcs)
                    => l.cartItemId \in ClaimLineIds(cart)
              /\ (ClaimReturns(p, l) /\ ~ClaimWrote(l) /\ ClaimAllOk(l)
                    /\ l.cartItemId \notin ClaimLineIds(cart))
                    => /\ ~l.result.success
                       /\ l.result.error = "Cart item not found"]_vars

\* product 101 was in a cart of two lines and the update to 0 succeeded
C21_Witness ==
    \E p \in Callers :
        /\ ClaimFinished(p, "updateCartQuantity")
        /\ proc[p].quantity = 0
        /\ proc[p].result.success
        /\ proc[p].cartItemId = CartItemId(101)
        /\ DOMAIN proc[p].snap = {101, 102}
        /\ 101 \notin DOMAIN cart


(***************************************************************************)
(* Further claims about calculateBestPrice (specification SpecPrice)       *)
(***************************************************************************)
\* C22: whenever calculateBestPrice emits an "Add N more" annotation for a
\* tier, N is at least 1 and quantity + N reaches the threshold of that
\* tier, also for a capped tier whose cap is below its threshold
C22_AddMoreReachesTier ==
    (priceDone /\ priceInfo.saleInfo.kind = "potential") =>
        /\ priceInfo.saleInfo.amount >= 1
        /\ quantity + priceInfo.saleInfo.amount >= priceInfo.saleInfo.cmt

\* the applicable tiers whose total is the lowest and below the regular one
ClaimWinners(p, q) ==
    { i \in 1..Len(p.sale) :
        /\ ClaimApplicable(p.sale[i], q)
        /\ ClaimTierTotal(p.sale[i], p.price, q) < p.price * q
        /\ \A j \in 1..Len(p.sale) :
              ClaimApplicable(p.sale[j], q) =>
                  ClaimTierTotal(p.sale[i], p.price, q)
                      <= ClaimTierTotal(p.sale[j], p.price, q) }

\* C23: when several applicable tiers give the same lowest total below the
\* regular total, the sale annotation names the first of them in the order
\* of the tier list; a tier whose total equals the regular total is never
\* reported as an applied sale
C23_TieKeepsFirstTier ==
    (priceDone /\ quantity >= 1) =>
        LET winners == ClaimWinners(product, quantity)
        IN  /\ winners # {} =>
                  LET first == CHOOSE i \in winners :
                                   \A j \in winners : i <= j
                      t == product.sale[first]
                  IN  /\ priceInfo.saleInfo.kind = "sale"
                      /\ priceInfo.saleInfo.cmt = t.cmt
                      /\ priceInfo.saleInfo.scm = t.scm
                      /\ priceInfo.saleInfo.clubNote = (t.is_club = 1)
                      /\ priceInfo.saleInfo.maxNote = t.max_in_doc
            /\ winners = {} => priceInfo.saleInfo.kind # "sale"
            /\ priceInfo.saleInfo.kind = "sale" =>
                  priceInfo.totalPrice < product.price * quantity

\* "3 for 15, max 6" before "2 for 10" at six units of price 6: both total
\* 30 and the annotation names the first
C23_Witness ==
    /\ priceDone
    /\ quantity = 6
    /\ product.price = 6
    /\ Len(product.sale) = 2
    /\ product.sale[1] = Tier(1, 3, 15, 0, 6)
    /\ product.sale[2] = Tier(1, 2, 10, 0, 0)
    /\ ClaimWinners(product, quantity) = {1, 2}
    /\ priceInfo.saleInfo.cmt = 3

ClaimOtherLinesKept(pid) ==
    \A x \in DOMAIN cart :
        x # pid => (x \in DOMAIN cart' /\ cart'[x] = cart[x])

\* C25: a successful Rami Levy removeFromCart(X) or updateCartQuantity(X, q)
\* changes only the line of item X: every other line of the upstream cart,
\* also of a product not available at the store, is still in the upstream
\* cart afterwards with its quantity.  Stated for the calls that return
\* success in the step that applies their write (removeFromCart, and
\* updateCartQuantity with quantity 0), where the cart before the step is
\* the cart before the call
C25_OnlyTargetLineChanges ==
    [][\A p \in Callers : \A l \in {proc'[p]} :
          (/\ ClaimReturns(p, l)
           /\ l.method \in {"removeFromCart", "updateCartQuantity"}
           /\ l.result.success
           /\ WriteApplied(p))
              => ClaimOtherLinesKept(ClaimProductOf(l.cartItemId))]_vars

\* C26: a successful Rami Levy addToCart(P, q) leaves every product that
\* was already in the upstream cart present with its quantity, the POST to
\* /v2/cart replacing the whole cart with the posted item map
C26_AddKeepsOtherLines ==
    [][\A p \in Callers : \A l \in {proc'[p]} :
          (/\ ClaimReturns(p, l)
           /\ l.method = "addToCart"
           /\ l.result.success)
              => ClaimOtherLinesKept(l.productId)]_vars

\* the write of the call was applied upstream
ClaimWriteApplied(l) ==
    \E i \in 1..Len(l.log) :
        l.log[i].req \in CartPostPcs /\ l.log[i].outcome = "ok"

\* the read after the write got the customer's cart
ClaimReRead(l) ==
    \E i \in 1..Len(l.log) :
        l.log[i].req = "up.gc2.user" /\ l.log[i].outcome = "ok"

\* C27: if Rami Levy updateCartQuantity returns a failure, the upstream
\* cart is the same as before the call.  Two consequences: when the write
\* was applied and the read after it got no cart, the upstream cart is
\* still the cart read before the write; and when the updated item is not
\* found after the update, its product, found before, is still in the cart
C27_FailureLeavesCart ==
    \A p \in Callers :
        (ClaimFinished(p, "updateCartQuantity") /\ ~proc[p].result.success)
            => /\ (ClaimWriteApplied(proc[p]) /\ ~ClaimReRead(proc[p]))
                     => cart = proc[p].snap
               /\ proc[p].result.error
                     = "Updated item not found in cart after update"
                     => ClaimProductOf(proc[p].cartItemId) \in DOMAIN cart


(***************************************************************************)
(* Claims about the factory's configuration check and failures             *)
(***************************************************************************)
\* the credential variables the factory reads for a website
ClaimNamedVars(website) ==
    IF website = "rami-levy"
    THEN {"RAMI_LEVY_API_KEY", "ECOM_TOKEN", "COOKIE"}
    ELSE {}

ClaimConstructionFailed(p, call) ==
    /\ ToolInvoked(p, call)
    /\ ~ArgsRejected(call)
    /\ call.phase = "responded"

\* C29: a failed adapter construction is never cached: a getAdapter call
\* that throws leaves the registry as it was, the adapters cached for other
\* websites included, and adds no entry for its website; its error names
\* the website and the message of the constructor.  A later getAdapter for
\* that website with complete credentials constructs and returns an adapter
C29_FailedConstructionNotCached ==
    [][\A p \in Callers : \A call \in {tool'[p]} :
          /\ ClaimConstructionFailed(p, call)
                => /\ adapters' = adapters
                   /\ adapters'[call.website] = NoAdapter
                   /\ constructed' = constructed
                   /\ call.response.isError
                   /\ Len(call.response.error) = 3
                   /\ call.response.error[1] = "Failed to initialize"
                   /\ call.response.error[2] = call.website
                   /\ call.response.error[3] # ""
                   /\ call.response.error[3] =
                          RamiLevyConstructor(
                              ClaimCredentials(call.website, call.env))
          /\ (/\ ToolInvoked(p, call)
              /\ ~ArgsRejected(call)
              /\ adapters[call.website] = NoAdapter
              /\ ClaimNamedVars(call.website) \subseteq call.env)
                => /\ call.phase = "calling"
                   /\ call.adapter # NoAdapter
                   /\ adapters'[call.website] = call.adapter]_vars

\* a rami-levy construction failed while the shufersal adapter stays cached
C29_Witness ==
    /\ tool[1].phase = "responded"
    /\ tool[1].website = "rami-levy"
    /\ tool[1].response.source = "exception"
    /\ tool[1].env = {"RAMI_LEVY_API_KEY", "ECOM_TOKEN"}
    /\ adapters["shufersal"] # NoAdapter
    /\ adapters["rami-levy"] = NoAdapter


(***************************************************************************)
(* Claims about the ConversationManager (specification SpecConversation)   *)
(***************************************************************************)
ClaimStored == getStorageData(storage)

ClaimMessagesOf(stored, hostname) ==
    IF HasConversation(getStorageData(stored).conversations, hostname)
    THEN ConversationOf(getStorageData(stored).conversations,
                        hostname).messages
    ELSE <<>>

\* C30: after any sequence of operations run one at a time the storage
\* holds at most settings.maxConversations conversations and every stored
\* conversation holds at most maxMessagesPerConversation messages; an
\* addMessage leaves the most recent messages of its conversation, in order
C30_StorageWithinLimits ==
    /\ [](/\ Len(ClaimStored.conversations)
                 <= ClaimStored.settings.maxConversations
          /\ \A i \in 1..Len(ClaimStored.conversations) :
                Len(ClaimStored.conversations[i].messages)
                    <= ClaimStored.settings.maxMessagesPerConversation)
    /\ [][\A hostname \in Hostnames :
             AddMessage(hostname)
                 => \A all \in {Append(ClaimMessagesOf(storage, hostname),
                                       Message(now'))} :
                       ClaimMessagesOf(storage', hostname) =
                           SubSeq(all,
                                  Max(1, Len(all) - MaxMessages + 1),
                                  Len(all))]_vars

====
